---- MODULE Spec2Model ----
(***************************************************************************)
(* A model of the audio recorder: the audify/WASAPI recorder module        *)
(* (src/recorder.js: the mixed loopback+mic session with its two frame     *)
(* queues and mixer, the loopback-only and the mic-only sessions) and the  *)
(* main-process 'recording:start' / 'recording:stop' handlers that drive   *)
(* it (src/unnamed/part_000, second file of the part).                     *)
(*                                                                         *)
(* JavaScript runs one task at a time: a handler runs to its next await    *)
(* without interleaving, so an action is one such run.  A Buffer is a      *)
(* sequence of bytes (0..255); 16-bit samples are read and written little  *)
(* endian as the code does.                                                *)
(***************************************************************************)
EXTENDS Integers, Sequences, FiniteSets, TLC

\* ------------------------------------------------------------------ bounds
MaxQueueSamples == 4   \* most samples per queue the mixer specification starts from
MaxCalls == 3          \* start/stop requests issued in one behaviour
MaxFrames == 2         \* frames delivered by the audio callbacks in one behaviour
MaxPending == 2        \* stop calls (or handlers) waiting at an await at one time
MaxFaults == 1         \* operations the environment makes throw in one behaviour
MaxScenarioFrames == 4 \* callbacks fired in the end-to-end mixed scenario
MaxLines == 3          \* lines of FFmpeg output parsed by one device listing

\* --------------------------------------------------------- program constants
FrameSize == 1920        \* const frameSize = 1920
FallbackRate == 48000    \* || 48000

\* ------------------------------------------------------------------ helpers
Min(a, b) == IF a <= b THEN a ELSE b
Max(a, b) == IF a >= b THEN a ELSE b

RECURSIVE Flatten(_)
Flatten(q) == IF q = <<>> THEN <<>> ELSE Head(q) \o Flatten(Tail(q))

\* ---------------------------------------------------------------- Buffers
\* buf.readInt16LE(i): the signed 16-bit value of bytes i, i+1 (i counts from 0)
ReadInt16LE(buf, i) ==
    LET u == buf[i + 1] + 256 * buf[i + 2]
    IN  IF u >= 32768 THEN u - 65536 ELSE u

\* the two bytes buf.writeInt16LE(s, i) stores, low byte first
Int16LoByte(s) == (s % 65536) % 256
Int16HiByte(s) == (s % 65536) \div 256

\* a Buffer holding the given 16-bit samples
RECURSIVE Pcm(_)
Pcm(samples) ==
    IF samples = <<>> THEN <<>>
    ELSE <<Int16LoByte(Head(samples)), Int16HiByte(Head(samples))>> \o Pcm(Tail(samples))

\* the 16-bit samples a Buffer of even length holds
Samples(buf) == [k \in 1..(Len(buf) \div 2) |-> ReadInt16LE(buf, 2 * (k - 1))]

\* Buffer.alloc + fill(0)
Silence(len) == [k \in 1..len |-> 0]

\* let s = (a + b) >> 1, then clamped to [-32768, 32767].  >> on int32
\* operands is an arithmetic shift: the floor of the half, which \div is.
MixSampleTrunc(a, b) ==
    LET s == a + b IN IF s >= 0 THEN s \div 2 ELSE -((-s) \div 2)

MixSampleNarrowClamp(a, b) ==
    LET s == (a + b) \div 2
    IN  IF s > 32766 THEN 32766 ELSE IF s < -32767 THEN -32767 ELSE s

MixSample(a, b) ==
    LET s == (a + b) \div 2
    IN  IF s > 32767 THEN 32767 ELSE IF s < -32768 THEN -32768 ELSE s

\* mixInt16Stereo(bufA, bufB): byte k of the output belongs to sample (k-1) div 2
MixInt16Stereo(bufA, bufB) ==
    LET len == Min(Len(bufA), Len(bufB))
    IN  [k \in 1..len |->
            LET i == 2 * ((k - 1) \div 2)
                s == MixSample(ReadInt16LE(bufA, i), ReadInt16LE(bufB, i))
            IN  IF k = i + 1 THEN Int16LoByte(s) ELSE Int16HiByte(s)]

\* mono to stereo: every sample written twice (onMic, nChannels === 1)
MonoToStereoRepeated(buf) == buf \o buf

MonoToStereo(buf) ==
    [k \in 1..(2 * Len(buf)) |->
        LET smp == (k - 1) \div 4
            off == (k - 1) % 2
        IN  buf[2 * smp + off + 1]]

\* ------------------------------------------------------------------ pumpMix
\* the queue left after minLen bytes of its head were mixed:
\*   if (a.length > minLen) q[0] = a.subarray(minLen); else q.shift();
RemainderDropped(q, minLen) == Tail(q)

RemainderAtBack(q, minLen) ==
    IF Len(Head(q)) > minLen
    THEN Tail(q) \o <<SubSeq(Head(q), minLen + 1, Len(Head(q)))>>
    ELSE Tail(q)

RemainderUnsliced(q, minLen) == IF Len(Head(q)) > minLen THEN q ELSE Tail(q)

Remainder(q, minLen) ==
    IF Len(Head(q)) > minLen
    THEN <<SubSeq(Head(q), minLen + 1, Len(Head(q)))>> \o Tail(q)
    ELSE Tail(q)

\* the frame mixed when only one queue has a head: that head against silence
PadMixUnhalved(frame) == frame

PadMix(frame) == MixInt16Stereo(frame, Silence(Len(frame)))

\* pumpMix(): the while loop, run until both queues are empty.  w collects, in
\* order, the buffers handed to wavWriter.write.
RECURSIVE PumpMixWhileBoth(_, _, _)
PumpMixWhileBoth(ql, qm, w) ==
    IF ql = <<>> \/ qm = <<>> THEN [qLoop |-> ql, qMic |-> qm, writes |-> w]
    ELSE LET minLen == Min(Len(Head(ql)), Len(Head(qm)))
         IN  PumpMixWhileBoth(Remainder(ql, minLen), Remainder(qm, minLen),
                              Append(w, MixInt16Stereo(SubSeq(Head(ql), 1, minLen),
                                                       SubSeq(Head(qm), 1, minLen))))

RECURSIVE PumpMix(_, _, _)
PumpMix(ql, qm, w) ==
    IF ql = <<>> /\ qm = <<>> THEN [qLoop |-> ql, qMic |-> qm, writes |-> w]
    ELSE IF qm = <<>> THEN PumpMix(Tail(ql), qm, Append(w, PadMix(Head(ql))))
    ELSE IF ql = <<>> THEN PumpMix(ql, Tail(qm), Append(w, PadMix(Head(qm))))
    ELSE LET a == Head(ql)
             b == Head(qm)
             minLen == Min(Len(a), Len(b))
         IN  IF Len(a) = Len(b)
             THEN PumpMix(Tail(ql), Tail(qm), Append(w, MixInt16Stereo(a, b)))
             ELSE PumpMix(Remainder(ql, minLen), Remainder(qm, minLen),
                          Append(w, MixInt16Stereo(SubSeq(a, 1, minLen),
                                                   SubSeq(b, 1, minLen))))

\* one iteration of pumpMix's while loop on non-empty queues: the queues it
\* leaves and the buffer it hands to wavWriter.write
PumpMixOnce(ql, qm) ==
    IF qm = <<>> THEN [qLoop |-> Tail(ql), qMic |-> qm, writes |-> <<PadMix(Head(ql))>>]
    ELSE IF ql = <<>>
    THEN [qLoop |-> ql, qMic |-> Tail(qm), writes |-> <<PadMix(Head(qm))>>]
    ELSE LET a == Head(ql)
             b == Head(qm)
             minLen == Min(Len(a), Len(b))
         IN  IF Len(a) = Len(b)
             THEN [qLoop |-> Tail(ql), qMic |-> Tail(qm),
                   writes |-> <<MixInt16Stereo(a, b)>>]
             ELSE [qLoop |-> Remainder(ql, minLen), qMic |-> Remainder(qm, minLen),
                   writes |-> <<MixInt16Stereo(SubSeq(a, 1, minLen),
                                               SubSeq(b, 1, minLen))>>]

\* ------------------------------------------------------- streams and writers
\* an audify.RtAudio instance: st is null (no instance), created, open,
\* running or closed; nChannels and sampleRate are what its stream was opened
\* with
NullRt == [st |-> "null", deviceId |-> 0, nChannels |-> 0, sampleRate |-> 0]
NewRt == [st |-> "created", deviceId |-> 0, nChannels |-> 0, sampleRate |-> 0]
OpenStream(rt, deviceId, n, rate) ==
    [st |-> "open", deviceId |-> deviceId, nChannels |-> n, sampleRate |-> rate]
StartStream(rt) == [rt EXCEPT !.st = "running"]
\* rt?.stop(); rt?.closeStream(), each in its own try
CloseStream(rt) == IF rt.st \in {"open", "running"} THEN [rt EXCEPT !.st = "closed"] ELSE rt

\* a wav.FileWriter: st is null (no writer), open, or ending (end requested);
\* data is what was written, lost counts the writes that threw
NullWriter ==
    [st |-> "null", path |-> "null", sampleRate |-> 0, channels |-> 0, bitDepth |-> 0,
     data |-> <<>>, lost |-> 0]
FileWriter(path, channels, sampleRate) ==
    [st |-> "open", path |-> path, sampleRate |-> sampleRate, channels |-> channels,
     bitDepth |-> 16, data |-> <<>>, lost |-> 0]

\* try { writer.write(buf) } catch { }: a write that throws loses the buffer
WriteBreaksWriter(writer, buf, throws) ==
    IF writer.st = "null" THEN writer
    ELSE IF writer.st = "open" /\ ~throws
    THEN [writer EXCEPT !.data = @ \o buf]
    ELSE [writer EXCEPT !.lost = @ + 1, !.st = "ending"]

Write(writer, buf, throws) ==
    IF writer.st = "null" THEN writer
    ELSE IF writer.st = "open" /\ ~throws
    THEN [writer EXCEPT !.data = @ \o buf]
    ELSE [writer EXCEPT !.lost = @ + 1]

\* the writes of one mixer run, the k-th of them throwing when k is in fails
RECURSIVE WriteAll(_, _, _, _)
WriteAll(writer, writes, k, fails) ==
    IF writes = <<>> THEN writer
    ELSE WriteAll(Write(writer, Head(writes), k \in fails), Tail(writes), k + 1, fails)

\* writer.end(cb)
EndWriter(writer) == IF writer.st = "open" THEN [writer EXCEPT !.st = "ending"] ELSE writer

\* ------------------------------------------------------------------ devices
\* what rt.getDevices() lists; preferredSampleRate and inputChannels are 0
\* when the endpoint does not report them
NoDevice ==
    [id |-> 0, isDefaultOutput |-> FALSE, isDefaultInput |-> FALSE,
     inputChannels |-> 0, preferredSampleRate |-> 0]
StereoDevice ==
    [id |-> 1, isDefaultOutput |-> TRUE, isDefaultInput |-> TRUE,
     inputChannels |-> 2, preferredSampleRate |-> 44100]
MonoDevice ==
    [id |-> 2, isDefaultOutput |-> FALSE, isDefaultInput |-> FALSE,
     inputChannels |-> 1, preferredSampleRate |-> 0]
DeviceLists == {<<>>, <<MonoDevice, StereoDevice>>}
\* the id getDefault...Device() reports: a listed device, or one the list does
\* not hold
DefaultIds == {2, 3}

\* devices.find(pred): the first device of the list in the set, else undefined
FindFirst(devices, hits) ==
    IF hits = {} THEN NoDevice
    ELSE devices[CHOOSE i \in hits : \A j \in hits : i <= j]

\* devices.find(d => d.id === defaultId) || devices.find(d => d[flag]) || devices[0]
PickDevice(devices, defaultId, flag) ==
    LET byId == {i \in DOMAIN devices : devices[i].id = defaultId}
        byFlag == {i \in DOMAIN devices : devices[i][flag]}
    IN  IF byId # {} THEN FindFirst(devices, byId)
        ELSE IF byFlag # {} THEN FindFirst(devices, byFlag)
        ELSE IF devices # <<>> THEN devices[1]
        ELSE NoDevice

\* the stream operation the audio subsystem makes throw during one start call
Fails == {"none", "openLoop", "openMic", "startLoop", "startMic"}

\* -------------------------------------------------------------------- paths
SystemAudioWav == "system-audio.wav"     \* getOutputPath()
LoopbackTsWav == "Loopback <ts>.wav"     \* startLoopback's default
MicTsWav == "Mic <ts>.wav"               \* startMic's default
RecordingTsWav == "<savePath>/Recording <ts>.wav"  \* 'recording:start'
OptPaths == {"out.wav"}
\* opts = {} or opts = {outputPath}
Opts == [outputPath : {"null"} \cup OptPaths]

\* ---------------------------------------------------------------- variables
VARIABLES
    platform,             \* process.platform
    devices, defaultOut, defaultIn,  \* what the audio subsystem reports
    nFaults,              \* operations the environment has made throw so far
    rtLoopback, rtMic, wavWriter, started, qLoop, qMic,
    sampleRateInUse, channelsInUse,                    \* recorder.js 9-16
    lbWriter, lbStarted, lbOutPath, lbRt,              \* recorder.js 244
    micWriter, micStarted, micOutPath, micRt,          \* recorder.js 281
    store,                \* main: the preferences store, null until imported
    currentRecorder, currentOutputPath, isUnifiedRecording,
    stopWait,             \* per mode, the stop calls awaiting the writer's end
    ipcWait,              \* 'recording:start' handlers awaiting initStore()
    rets,                 \* the answers given by the latest answering step
    nCalls,               \* requests issued so far
    nFrames,              \* frames delivered so far
    fed,                  \* what the callbacks of each live session delivered
    wlog,                 \* the buffers handed to write by the latest mixer run
    mixIn,                \* the queues the latest stand-alone mixer run started from
    listed,               \* the latest 'devices:list' exchange: what FFmpeg
                          \* printed and what the handler answered
    encoder               \* the FFmpeg path of 'recording:start': the engine the
                          \* binary offers, the handlers parked at an await, the
                          \* processes spawned, the stop requests awaiting 'close'

mixedVars ==
    <<rtLoopback, rtMic, wavWriter, started, qLoop, qMic, sampleRateInUse, channelsInUse>>
lbVars == <<lbWriter, lbStarted, lbOutPath, lbRt>>
micVars == <<micWriter, micStarted, micOutPath, micRt>>
mainVars ==
    <<store, currentRecorder, currentOutputPath, isUnifiedRecording, ipcWait, encoder>>
envVars == <<platform, devices, defaultOut, defaultIn, listed>>
vars ==
    <<envVars, nFaults, mixedVars, lbVars, micVars, mainVars, stopWait, rets, nCalls,
      nFrames, fed, wlog, mixIn>>

\* the mixed session's module state as one value
Mixed ==
    [rtLoopback |-> rtLoopback, rtMic |-> rtMic, wavWriter |-> wavWriter,
     started |-> started, qLoop |-> qLoop, qMic |-> qMic,
     sampleRateInUse |-> sampleRateInUse, channelsInUse |-> channelsInUse]

SetMixed(S) ==
    /\ rtLoopback' = S.rtLoopback
    /\ rtMic' = S.rtMic
    /\ wavWriter' = S.wavWriter
    /\ started' = S.started
    /\ qLoop' = S.qLoop
    /\ qMic' = S.qMic
    /\ sampleRateInUse' = S.sampleRateInUse
    /\ channelsInUse' = S.channelsInUse

\* an answer: what a start or stop call returned (ok) or threw (err).  active
\* and writerPath record, for the properties, whether the mode's session was
\* active when the call was made and the path its writer was opened on.
Answer(id, op, ok, err, outPath, active, writerPath) ==
    [id |-> id, op |-> op, ok |-> ok, err |-> err, outPath |-> outPath,
     active |-> active, writerPath |-> writerPath]

\* ------------------------------------------------------- recorder.js: start
\* if (started) throw new Error('Recording already in progress')
AlreadyActiveIgnored(flag) == FALSE

AlreadyActiveAnyMode(flag) == started \/ lbStarted \/ micStarted

AlreadyActiveUnlessStopping(flag) ==
    /\ flag
    /\ stopWait.mixed = <<>> /\ stopWait.loopback = <<>> /\ stopWait.mic = <<>>

AlreadyActive(flag) == flag

\* opts.outputPath || <default>
OutPath(opts, default) == IF opts.outputPath # "null" THEN opts.outputPath ELSE default

\* outDev.preferredSampleRate || inDev.preferredSampleRate || 48000
MixedSampleRateCaptureFirst(outDev, inDev) ==
    IF inDev.preferredSampleRate # 0 THEN inDev.preferredSampleRate
    ELSE IF outDev.preferredSampleRate # 0 THEN outDev.preferredSampleRate
    ELSE FallbackRate

MixedSampleRate(outDev, inDev) ==
    IF outDev.preferredSampleRate # 0 THEN outDev.preferredSampleRate
    ELSE IF inDev.preferredSampleRate # 0 THEN inDev.preferredSampleRate
    ELSE FallbackRate

\* Math.min(Math.max(inDev.inputChannels || 1, 1), 2)
MixedMicChannels(inDev) ==
    Min(Max(IF inDev.inputChannels = 0 THEN 1 ELSE inDev.inputChannels, 1), 2)

\* a throw from start(): the state as the statements before it left it
ThrownStarted(S, err) ==
    [S |-> [S EXCEPT !.started = TRUE], ok |-> FALSE, err |-> err, outPath |-> "null"]

Thrown(S, err) == [S |-> S, ok |-> FALSE, err |-> err, outPath |-> "null"]

\* what one start call meets: the devices and defaults reported, and the
\* operation that throws
Env(fail) ==
    [devices |-> devices, defaultOut |-> defaultOut, defaultIn |-> defaultIn,
     fail |-> fail]

\* start(opts): the module state it leaves and what it returns or throws.
\* Every throw leaves the assignments made before it in place.
MixedStart(S, opts, env) ==
    LET outDev == PickDevice(env.devices, env.defaultOut, "isDefaultOutput")
        inDev == PickDevice(env.devices, env.defaultIn, "isDefaultInput")
        sampleRate == MixedSampleRate(outDev, inDev)
        outPath == OutPath(opts, SystemAudioWav)
        S1 == [S EXCEPT !.rtLoopback = NewRt, !.rtMic = NewRt]
        S2 == [S1 EXCEPT !.sampleRateInUse = sampleRate, !.channelsInUse = 2,
                         !.wavWriter = FileWriter(outPath, 2, sampleRate)]
        S3 == [S2 EXCEPT !.rtLoopback = OpenStream(@, outDev.id, 2, sampleRate)]
        S4 == [S3 EXCEPT !.rtMic = OpenStream(@, inDev.id, MixedMicChannels(inDev), sampleRate)]
        S5 == [S4 EXCEPT !.rtLoopback = StartStream(@)]
        S6 == [S5 EXCEPT !.rtMic = StartStream(@)]
        closed(T) == [T EXCEPT !.rtLoopback = CloseStream(@), !.rtMic = CloseStream(@)]
    IN  IF platform # "win32" THEN Thrown(S, "UnsupportedPlatform")
        ELSE IF AlreadyActive(S.started) THEN Thrown(S, "AlreadyInProgress")
        ELSE IF outDev = NoDevice THEN Thrown(S1, "NoOutputDevice")
        ELSE IF inDev = NoDevice THEN Thrown(S1, "NoInputDevice")
        ELSE IF env.fail = "openLoop" THEN Thrown(S2, "OpenFailed")
        ELSE IF env.fail = "openMic" THEN Thrown(S3, "OpenFailed")
        ELSE IF env.fail = "startLoop" THEN Thrown(closed(S4), "StartFailed")
        ELSE IF env.fail = "startMic" THEN Thrown(closed(S5), "StartFailed")
        ELSE [S |-> [S6 EXCEPT !.started = TRUE], ok |-> TRUE, err |-> "",
              outPath |-> outPath]

\* -------------------------------------------------------- recorder.js: stop
\* if (!started) return { ok: false }
StopIsNoopNever(flag) == FALSE

StopIsNoop(flag) == ~flag

\* stop() up to its await: both streams stopped and closed, the writer's end requested
MixedStopBeginStreamsOpen(S) == [S EXCEPT !.wavWriter = EndWriter(@)]

MixedStopBegin(S) ==
    [S EXCEPT !.rtLoopback = CloseStream(@), !.rtMic = CloseStream(@),
              !.wavWriter = EndWriter(@)]

\* const outPath = getOutputPath(), the path stop() returns
MixedStopPath(S) == SystemAudioWav

\* stop() after its await: "Reset state"
MixedResetHandlesKept(S) == [S EXCEPT !.started = FALSE, !.qLoop = <<>>, !.qMic = <<>>]

MixedReset(S) ==
    [S EXCEPT !.rtLoopback = NullRt, !.rtMic = NullRt, !.wavWriter = NullWriter,
              !.started = FALSE, !.qLoop = <<>>, !.qMic = <<>>]

\* a stop call parked at its await: who made it (the recorder API or the
\* 'recording:stop' handler, with the path that handler saved)
Waiter(id, caller, saved, writerPath) ==
    [id |-> id, caller |-> caller, saved |-> saved, writerPath |-> writerPath]

\* res?.outPath || outPath
OrPath(p, q) == IF p # "null" THEN p ELSE q

\* what a stop call answers once its continuation has run; p is the path
\* recorder.stop() returned
StopAnswer(w, p) ==
    IF w.caller = "ipc"
    THEN Answer(w.id, "recording:stop", TRUE, "", OrPath(p, w.saved), TRUE, w.writerPath)
    ELSE Answer(w.id, "stop", TRUE, "", p, TRUE, w.writerPath)

\* the recorder API: start(opts)
Start(opts, env) ==
    LET r == MixedStart(Mixed, opts, env)
    IN  /\ nCalls' = nCalls + 1
        /\ SetMixed(r.S)
        /\ rets' = <<Answer(nCalls + 1, "start", r.ok, r.err, r.outPath, started,
                            r.S.wavWriter.path)>>
        /\ fed' = IF r.ok THEN [fed EXCEPT !.loop = 0, !.mic = 0] ELSE fed
        /\ UNCHANGED <<envVars, lbVars, micVars, mainVars, stopWait, nFrames, wlog, mixIn>>

\* the recorder API: stop(), to its return (not started, or the writer's end
\* threw) or to its await
Stop ==
    /\ nCalls' = nCalls + 1
    /\ IF StopIsNoop(started)
       THEN /\ rets' = <<Answer(nCalls + 1, "stop", FALSE, "", "null", started,
                                wavWriter.path)>>
            /\ UNCHANGED <<mixedVars, stopWait>>
       ELSE IF wavWriter.st = "null"
       THEN /\ SetMixed(MixedReset(MixedStopBegin(Mixed)))
            /\ rets' = <<Answer(nCalls + 1, "stop", TRUE, "", MixedStopPath(Mixed),
                                started, wavWriter.path)>>
            /\ UNCHANGED stopWait
       ELSE /\ Len(stopWait.mixed) < MaxPending
            /\ SetMixed(MixedStopBegin(Mixed))
            /\ stopWait' = [stopWait EXCEPT !.mixed =
                   Append(@, Waiter(nCalls + 1, "recorder", "null", wavWriter.path))]
            /\ UNCHANGED rets
    /\ UNCHANGED <<envVars, lbVars, micVars, mainVars, nFrames, fed, wlog, mixIn>>

\* the writer's end callback fires: every stop call parked on it continues, in
\* the order the calls were made, each resetting the state and returning
WavWriterEnded ==
    /\ stopWait.mixed # <<>>
    /\ rets' = [i \in 1..Len(stopWait.mixed) |->
                   StopAnswer(stopWait.mixed[i], MixedStopPath(Mixed))]
    /\ SetMixed(MixedReset(Mixed))
    /\ stopWait' = [stopWait EXCEPT !.mixed = <<>>]
    /\ UNCHANGED <<envVars, lbVars, micVars, mainVars, nCalls, nFrames, fed, wlog, mixIn>>

\* --------------------------------------------- recorder.js: mixed callbacks
\* if (micParams.nChannels === 1) duplicate mono to stereo
NormalizeAlways(pcm, nChannels) == MonoToStereo(pcm)

Normalize(pcm, nChannels) == IF nChannels = 1 THEN MonoToStereo(pcm) ELSE pcm

\* onLoop(pcm): qLoop.push(Buffer.from(pcm)); pumpMix()
OnLoop(pcm, fails) ==
    LET r == PumpMix(Append(qLoop, pcm), qMic, <<>>)
    IN  /\ rtLoopback.st = "running"
        /\ qLoop' = r.qLoop
        /\ qMic' = r.qMic
        /\ wavWriter' = WriteAll(wavWriter, r.writes, 1, fails)
        /\ wlog' = r.writes
        /\ fed' = [fed EXCEPT !.loop = @ + Len(pcm)]
        /\ nFrames' = nFrames + 1
        /\ UNCHANGED <<envVars, rtLoopback, rtMic, started, sampleRateInUse,
                       channelsInUse, lbVars, micVars, mainVars, stopWait, rets,
                       nCalls, mixIn>>

\* onMic(pcm): normalise, qMic.push(buf); pumpMix()
OnMic(pcm, fails) ==
    LET r == PumpMix(qLoop, Append(qMic, Normalize(pcm, rtMic.nChannels)), <<>>)
    IN  /\ rtMic.st = "running"
        /\ qLoop' = r.qLoop
        /\ qMic' = r.qMic
        /\ wavWriter' = WriteAll(wavWriter, r.writes, 1, fails)
        /\ wlog' = r.writes
        /\ fed' = [fed EXCEPT !.mic = @ + Len(pcm)]
        /\ nFrames' = nFrames + 1
        /\ UNCHANGED <<envVars, rtLoopback, rtMic, started, sampleRateInUse,
                       channelsInUse, lbVars, micVars, mainVars, stopWait, rets,
                       nCalls, mixIn>>

\* ------------------------------------------- recorder.js: loopback-only mode
\* outDev.preferredSampleRate || 48000
SingleSampleRate(dev) ==
    IF dev.preferredSampleRate # 0 THEN dev.preferredSampleRate ELSE FallbackRate

StartLoopback(opts, env) ==
    LET outDev == PickDevice(env.devices, env.defaultOut, "isDefaultOutput")
        path == OutPath(opts, LoopbackTsWav)
        writer == FileWriter(path, 2, SingleSampleRate(outDev))
        answer(ok, err, p, wp) ==
            <<Answer(nCalls + 1, "startLoopback", ok, err, p, lbStarted, wp)>>
    IN  /\ nCalls' = nCalls + 1
        /\ IF platform # "win32"
           THEN /\ rets' = answer(FALSE, "UnsupportedPlatform", "null", lbWriter.path)
                /\ UNCHANGED lbVars
           ELSE IF AlreadyActive(lbStarted)
           THEN /\ rets' = answer(FALSE, "AlreadyInProgress", "null", lbWriter.path)
                /\ UNCHANGED lbVars
           ELSE IF outDev = NoDevice
           THEN /\ rets' = answer(FALSE, "NoOutputDevice", "null", lbWriter.path)
                /\ lbRt' = NewRt
                /\ UNCHANGED <<lbWriter, lbStarted, lbOutPath>>
           ELSE IF env.fail = "openLoop"
           THEN /\ rets' = answer(FALSE, "OpenFailed", "null", path)
                /\ lbRt' = NewRt
                /\ lbOutPath' = path
                /\ lbWriter' = writer
                /\ UNCHANGED lbStarted
           ELSE IF env.fail = "startLoop"
           THEN /\ rets' = answer(FALSE, "StartFailed", "null", path)
                /\ lbRt' = OpenStream(NewRt, outDev.id, 2, SingleSampleRate(outDev))
                /\ lbOutPath' = path
                /\ lbWriter' = writer
                /\ UNCHANGED lbStarted
           ELSE /\ rets' = answer(TRUE, "", path, path)
                /\ lbRt' = StartStream(OpenStream(NewRt, outDev.id, 2, SingleSampleRate(outDev)))
                /\ lbOutPath' = path
                /\ lbWriter' = writer
                /\ lbStarted' = TRUE
        /\ fed' = IF rets'[1].ok THEN [fed EXCEPT !.lb = <<>>] ELSE fed
        /\ UNCHANGED <<envVars, mixedVars, micVars, mainVars, stopWait, nFrames,
                       wlog, mixIn>>

\* lbRt = null; lbWriter = null; lbStarted = false; lbOutPath = null
LoopbackReset ==
    /\ lbRt' = NullRt
    /\ lbWriter' = NullWriter
    /\ lbStarted' = FALSE
    /\ lbOutPath' = "null"

StopLoopback ==
    /\ nCalls' = nCalls + 1
    /\ IF StopIsNoop(lbStarted)
       THEN /\ rets' = <<Answer(nCalls + 1, "stopLoopback", FALSE, "", "null",
                                lbStarted, lbWriter.path)>>
            /\ UNCHANGED <<lbVars, stopWait>>
       ELSE IF lbWriter.st = "null"
       THEN /\ LoopbackReset
            /\ rets' = <<Answer(nCalls + 1, "stopLoopback", TRUE, "", lbOutPath,
                                lbStarted, lbWriter.path)>>
            /\ UNCHANGED stopWait
       ELSE /\ Len(stopWait.loopback) < MaxPending
            /\ lbRt' = CloseStream(lbRt)
            /\ lbWriter' = EndWriter(lbWriter)
            /\ stopWait' = [stopWait EXCEPT !.loopback =
                   Append(@, Waiter(nCalls + 1, "recorder", "null", lbWriter.path))]
            /\ UNCHANGED <<lbStarted, lbOutPath, rets>>
    /\ UNCHANGED <<envVars, mixedVars, micVars, mainVars, nFrames, fed, wlog, mixIn>>

\* lbWriter's end callback fires: the parked calls continue in order; the
\* first reads lbOutPath, the later ones read what the first reset it to
LbWriterEnded ==
    /\ stopWait.loopback # <<>>
    /\ rets' = [i \in 1..Len(stopWait.loopback) |->
                   Answer(stopWait.loopback[i].id, "stopLoopback", TRUE, "",
                          IF i = 1 THEN lbOutPath ELSE "null", TRUE,
                          stopWait.loopback[i].writerPath)]
    /\ LoopbackReset
    /\ stopWait' = [stopWait EXCEPT !.loopback = <<>>]
    /\ UNCHANGED <<envVars, mixedVars, micVars, mainVars, nCalls, nFrames, fed,
                   wlog, mixIn>>

\* onLoop(pcm): try { lbWriter.write(pcm) } catch { }
LbOnLoop(pcm, throws) ==
    /\ lbRt.st = "running"
    /\ lbWriter' = Write(lbWriter, pcm, throws)
    /\ fed' = [fed EXCEPT !.lb = @ \o pcm]
    /\ nFrames' = nFrames + 1
    /\ UNCHANGED <<envVars, mixedVars, lbStarted, lbOutPath, lbRt, micVars,
                   mainVars, stopWait, rets, nCalls, wlog, mixIn>>

\* ------------------------------------------------ recorder.js: mic-only mode
\* Math.max(inDev.inputChannels || 1, 1)
MicChannels(inDev) == Max(IF inDev.inputChannels = 0 THEN 1 ELSE inDev.inputChannels, 1)

StartMic(opts, env) ==
    LET inDev == PickDevice(env.devices, env.defaultIn, "isDefaultInput")
        path == OutPath(opts, MicTsWav)
        writer == FileWriter(path, 2, SingleSampleRate(inDev))
        answer(ok, err, p, wp) ==
            <<Answer(nCalls + 1, "startMic", ok, err, p, micStarted, wp)>>
    IN  /\ nCalls' = nCalls + 1
        /\ IF platform # "win32"
           THEN /\ rets' = answer(FALSE, "UnsupportedPlatform", "null", micWriter.path)
                /\ UNCHANGED micVars
           ELSE IF AlreadyActive(micStarted)
           THEN /\ rets' = answer(FALSE, "AlreadyInProgress", "null", micWriter.path)
                /\ UNCHANGED micVars
           ELSE IF inDev = NoDevice
           THEN /\ rets' = answer(FALSE, "NoInputDevice", "null", micWriter.path)
                /\ micRt' = NewRt
                /\ UNCHANGED <<micWriter, micStarted, micOutPath>>
           ELSE IF env.fail = "openMic"
           THEN /\ rets' = answer(FALSE, "OpenFailed", "null", path)
                /\ micRt' = NewRt
                /\ micOutPath' = path
                /\ micWriter' = writer
                /\ UNCHANGED micStarted
           ELSE IF env.fail = "startMic"
           THEN /\ rets' = answer(FALSE, "StartFailed", "null", path)
                /\ micRt' = OpenStream(NewRt, inDev.id, MicChannels(inDev), SingleSampleRate(inDev))
                /\ micOutPath' = path
                /\ micWriter' = writer
                /\ UNCHANGED micStarted
           ELSE /\ rets' = answer(TRUE, "", path, path)
                /\ micRt' = StartStream(OpenStream(NewRt, inDev.id, MicChannels(inDev), SingleSampleRate(inDev)))
                /\ micOutPath' = path
                /\ micWriter' = writer
                /\ micStarted' = TRUE
        /\ fed' = IF rets'[1].ok THEN [fed EXCEPT !.mc = <<>>] ELSE fed
        /\ UNCHANGED <<envVars, mixedVars, lbVars, mainVars, stopWait, nFrames,
                       wlog, mixIn>>

\* micRt = null; micWriter = null; micStarted = false; micOutPath = null
MicReset ==
    /\ micRt' = NullRt
    /\ micWriter' = NullWriter
    /\ micStarted' = FALSE
    /\ micOutPath' = "null"

StopMic ==
    /\ nCalls' = nCalls + 1
    /\ IF StopIsNoop(micStarted)
       THEN /\ rets' = <<Answer(nCalls + 1, "stopMic", FALSE, "", "null",
                                micStarted, micWriter.path)>>
            /\ UNCHANGED <<micVars, stopWait>>
       ELSE IF micWriter.st = "null"
       THEN /\ MicReset
            /\ rets' = <<Answer(nCalls + 1, "stopMic", TRUE, "", micOutPath,
                                micStarted, micWriter.path)>>
            /\ UNCHANGED stopWait
       ELSE /\ Len(stopWait.mic) < MaxPending
            /\ micRt' = CloseStream(micRt)
            /\ micWriter' = EndWriter(micWriter)
            /\ stopWait' = [stopWait EXCEPT !.mic =
                   Append(@, Waiter(nCalls + 1, "recorder", "null", micWriter.path))]
            /\ UNCHANGED <<micStarted, micOutPath, rets>>
    /\ UNCHANGED <<envVars, mixedVars, lbVars, mainVars, nFrames, fed, wlog, mixIn>>

MicWriterEnded ==
    /\ stopWait.mic # <<>>
    /\ rets' = [i \in 1..Len(stopWait.mic) |->
                   Answer(stopWait.mic[i].id, "stopMic", TRUE, "",
                          IF i = 1 THEN micOutPath ELSE "null", TRUE,
                          stopWait.mic[i].writerPath)]
    /\ MicReset
    /\ stopWait' = [stopWait EXCEPT !.mic = <<>>]
    /\ UNCHANGED <<envVars, mixedVars, lbVars, mainVars, nCalls, nFrames, fed,
                   wlog, mixIn>>

\* onMic(pcm): normalise, try { micWriter.write(buf) } catch { }
MicOnMic(pcm, throws) ==
    /\ micRt.st = "running"
    /\ micWriter' = Write(micWriter, Normalize(pcm, micRt.nChannels), throws)
    /\ fed' = [fed EXCEPT !.mc = @ \o pcm]
    /\ nFrames' = nFrames + 1
    /\ UNCHANGED <<envVars, mixedVars, micStarted, micOutPath, micRt, lbVars,
                   mainVars, stopWait, rets, nCalls, wlog, mixIn>>

\* ------------------------------------ main process: 'recording:start' / 'stop'
\* path.join(saveDir, timestampFilename('Recording', 'wav'))
IpcPaths == {RecordingTsWav}

\* a 'recording:start' handler parked at await initStore()
Handler(id, outPath) == [id |-> id, outPath |-> outPath]

\* the handlers hs continue after initStore(), in order: each sets
\* currentOutputPath and calls recorder.start({ outputPath }); its own
\* continuation (isUnifiedRecording = true, or = false and rethrow) runs after
\* all of those calls, again in order, so the last handler's outcome stays.
RECURSIVE RunStartHandlers(_, _, _, _)
RunStartHandlers(S, hs, fs, answers) ==
    IF hs = <<>> THEN [S |-> S, answers |-> answers]
    ELSE LET h == Head(hs)
             r == MixedStart(S, [outputPath |-> h.outPath], Env(Head(fs)))
             a == Answer(h.id, "recording:start", r.ok, r.err,
                         IF r.ok THEN OrPath(r.outPath, h.outPath) ELSE "null",
                         S.started, r.S.wavWriter.path)
         IN  RunStartHandlers(r.S, Tail(hs), Tail(fs), Append(answers, a))

ContinueStartHandlers(hs, fs) ==
    LET r == RunStartHandlers(Mixed, hs, fs, <<>>)
    IN  /\ SetMixed(r.S)
        /\ rets' = r.answers
        /\ currentOutputPath' = hs[Len(hs)].outPath
        /\ isUnifiedRecording' = r.answers[Len(hs)].ok
        /\ fed' = IF \E i \in DOMAIN r.answers : r.answers[i].ok
                  THEN [fed EXCEPT !.loop = 0, !.mic = 0] ELSE fed

\* ipcMain.handle('recording:start') on win32
IpcRecordingStart(outPath, fail) ==
    /\ platform = "win32"
    /\ nCalls' = nCalls + 1
    /\ IF currentRecorder # "null"
       THEN /\ rets' = <<Answer(nCalls + 1, "recording:start", FALSE,
                                "AlreadyInProgress", "null", started, wavWriter.path)>>
            /\ UNCHANGED <<mixedVars, currentOutputPath, isUnifiedRecording, ipcWait, fed>>
       ELSE IF store = "null"
       THEN /\ Len(ipcWait) < MaxPending
            /\ ipcWait' = Append(ipcWait, Handler(nCalls + 1, outPath))
            /\ UNCHANGED <<mixedVars, currentOutputPath, isUnifiedRecording, rets, fed>>
       ELSE /\ ContinueStartHandlers(<<Handler(nCalls + 1, outPath)>>, <<fail>>)
            /\ UNCHANGED ipcWait
    /\ UNCHANGED <<envVars, lbVars, micVars, store, currentRecorder, encoder, stopWait,
                   nFrames, wlog, mixIn>>

\* the import of the store module resolves: store is set and the parked
\* handlers continue
StoreLoaded(fs) ==
    /\ store = "null"
    /\ store' = "ready"
    /\ IF ipcWait = <<>>
       THEN UNCHANGED <<mixedVars, currentOutputPath, isUnifiedRecording, rets, fed>>
       ELSE ContinueStartHandlers(ipcWait, fs)
    /\ ipcWait' = <<>>
    /\ UNCHANGED <<envVars, lbVars, micVars, currentRecorder, encoder, stopWait, nCalls,
                   nFrames, wlog, mixIn>>

\* ipcMain.handle('recording:stop') on win32
IpcRecordingStop ==
    /\ platform = "win32"
    /\ nCalls' = nCalls + 1
    /\ IF isUnifiedRecording
       THEN /\ isUnifiedRecording' = FALSE
            /\ currentOutputPath' = "null"
            /\ IF StopIsNoop(started)
               THEN /\ rets' = <<Answer(nCalls + 1, "recording:stop", TRUE, "",
                                        currentOutputPath, started, wavWriter.path)>>
                    /\ UNCHANGED <<mixedVars, stopWait>>
               ELSE IF wavWriter.st = "null"
               THEN /\ SetMixed(MixedReset(MixedStopBegin(Mixed)))
                    /\ rets' = <<Answer(nCalls + 1, "recording:stop", TRUE, "",
                                        OrPath(MixedStopPath(Mixed), currentOutputPath),
                                        started, wavWriter.path)>>
                    /\ UNCHANGED stopWait
               ELSE /\ Len(stopWait.mixed) < MaxPending
                    /\ SetMixed(MixedStopBegin(Mixed))
                    /\ stopWait' = [stopWait EXCEPT !.mixed =
                           Append(@, Waiter(nCalls + 1, "ipc", currentOutputPath,
                                            wavWriter.path))]
                    /\ UNCHANGED rets
       ELSE /\ currentRecorder = "null"
            /\ rets' = <<Answer(nCalls + 1, "recording:stop", FALSE, "", "null",
                                started, wavWriter.path)>>
            /\ UNCHANGED <<mixedVars, stopWait, isUnifiedRecording, currentOutputPath>>
    /\ UNCHANGED <<envVars, lbVars, micVars, store, currentRecorder, encoder, ipcWait,
                   nFrames, fed, wlog, mixIn>>

\* ------------------------------------------------------------ specification
\* the frames the callbacks deliver: two 16-bit samples each
PcmFrames == {Pcm(<<1, -1>>), Pcm(<<32767, -32768>>)}

NoFed == [loop |-> 0, mic |-> 0, lb |-> <<>>, mc |-> <<>>]
NoMixIn == [loop |-> <<>>, mic |-> <<>>, ran |-> FALSE]
NoListing ==
    [engine |-> "null", stderr |-> <<>>, capture |-> <<>>, render |-> <<>>,
     done |-> FALSE]

\* no FFmpeg process spawned, no handler of the FFmpeg path parked
NoEncoder == [engine |-> "null", starting |-> <<>>, procs |-> <<>>, stops |-> <<>>]

\* the module state when recorder.js and the main process have loaded
InitModules ==
    /\ rtLoopback = NullRt /\ rtMic = NullRt /\ wavWriter = NullWriter
    /\ started = FALSE /\ qLoop = <<>> /\ qMic = <<>>
    /\ sampleRateInUse = FallbackRate /\ channelsInUse = 2
    /\ lbWriter = NullWriter /\ lbStarted = FALSE /\ lbOutPath = "null" /\ lbRt = NullRt
    /\ micWriter = NullWriter /\ micStarted = FALSE /\ micOutPath = "null"
    /\ micRt = NullRt
    /\ store = "null" /\ currentRecorder = "null" /\ currentOutputPath = "null"
    /\ isUnifiedRecording = FALSE
    /\ stopWait = [mixed |-> <<>>, loopback |-> <<>>, mic |-> <<>>]
    /\ ipcWait = <<>>
    /\ rets = <<>> /\ nCalls = 0 /\ nFrames = 0 /\ nFaults = 0
    /\ fed = NoFed /\ wlog = <<>> /\ mixIn = NoMixIn
    /\ listed = NoListing
    /\ encoder = NoEncoder

\* the machine the program runs on: its platform and its audio endpoints
Init ==
    /\ platform \in {"win32", "linux"}
    /\ devices \in DeviceLists
    /\ defaultOut \in DefaultIds
    /\ defaultIn \in DefaultIds
    /\ InitModules

\* the answers of this step that report a thrown stream operation
Faulted(answers) ==
    Cardinality({i \in DOMAIN answers : answers[i].err \in {"OpenFailed", "StartFailed"}})

\* a request is issued; the environment makes at most MaxFaults operations throw
Request(A) ==
    /\ nCalls < MaxCalls
    /\ A
    /\ nFaults' = nFaults + (IF rets' # rets THEN Faulted(rets') ELSE 0)
    /\ nFaults' <= MaxFaults

\* a callback delivers a frame; a write that throws counts as a fault
Deliver(A, throws) ==
    /\ nFrames < MaxFrames
    /\ A
    /\ nFaults' = nFaults + (IF throws THEN 1 ELSE 0)
    /\ nFaults' <= MaxFaults

CallStart == \E opts \in Opts, f \in Fails : Request(Start(opts, Env(f)))
CallStop == Request(Stop)
CallStartLoopback == \E opts \in Opts, f \in Fails : Request(StartLoopback(opts, Env(f)))
CallStopLoopback == Request(StopLoopback)
CallStartMic == \E opts \in Opts, f \in Fails : Request(StartMic(opts, Env(f)))
CallStopMic == Request(StopMic)
InvokeRecordingStart == \E p \in IpcPaths, f \in Fails : Request(IpcRecordingStart(p, f))
InvokeRecordingStop == Request(IpcRecordingStop)
StoreImported ==
    \E fs \in [1..Len(ipcWait) -> Fails] :
        /\ StoreLoaded(fs)
        /\ nFaults' = nFaults + (IF ipcWait # <<>> THEN Faulted(rets') ELSE 0)
        /\ nFaults' <= MaxFaults
WavEnded == WavWriterEnded /\ UNCHANGED nFaults
LbEnded == LbWriterEnded /\ UNCHANGED nFaults
MicEnded == MicWriterEnded /\ UNCHANGED nFaults
LoopFrame ==
    \E pcm \in PcmFrames, t \in BOOLEAN :
        Deliver(OnLoop(pcm, IF t THEN {1} ELSE {}), t)
MicFrame ==
    \E pcm \in PcmFrames, t \in BOOLEAN :
        Deliver(OnMic(pcm, IF t THEN {1} ELSE {}), t)
LbFrame == \E pcm \in PcmFrames, t \in BOOLEAN : Deliver(LbOnLoop(pcm, t), t)
McFrame == \E pcm \in PcmFrames, t \in BOOLEAN : Deliver(MicOnMic(pcm, t), t)

\* the recorder module: its three modes, driven through its API, and the
\* callbacks of its streams
Next ==
    \/ CallStart \/ CallStop \/ WavEnded
    \/ CallStartLoopback \/ CallStopLoopback \/ LbEnded
    \/ CallStartMic \/ CallStopMic \/ MicEnded
    \/ LoopFrame \/ MicFrame \/ LbFrame \/ McFrame

Spec == Init /\ [][Next]_vars

\* the main process: the 'recording:start' / 'recording:stop' handlers over the
\* mixed recorder, beside the 'recorder:start' / 'recorder:stop' handlers that
\* call start() and stop() directly
NextMain ==
    \/ InvokeRecordingStart \/ StoreImported \/ InvokeRecordingStop
    \/ CallStart \/ CallStop \/ WavEnded
    \/ LoopFrame \/ MicFrame

SpecMain == Init /\ [][NextMain]_vars

\* ------------------------------------------------- the mixer, stand-alone
\* the sample values the queued frames are made of: the two ends of the range
MixerSamples == {-32768, 32767}

\* a queue holds up to this many frames
MaxQueueFrames == MaxQueueSamples \div 2

FramesOf(n) == {Pcm(x) : x \in [1..n -> MixerSamples]}
MixerFrames == UNION {FramesOf(n) : n \in 0..MaxQueueSamples}
\* the queues: at most MaxQueueFrames frames holding at most MaxQueueSamples
\* samples together (a frame may be empty)
MixerQueues ==
    {q \in UNION {[1..k -> MixerFrames] : k \in 0..MaxQueueFrames} :
        Len(Flatten(q)) <= 2 * MaxQueueSamples}

\* a mixed session as a successful start() leaves it
ActiveMixed ==
    /\ rtLoopback = StartStream(OpenStream(NewRt, 1, 2, FallbackRate))
    /\ rtMic = StartStream(OpenStream(NewRt, 1, 2, FallbackRate))
    /\ wavWriter = FileWriter(SystemAudioWav, 2, FallbackRate)
    /\ started = TRUE
    /\ sampleRateInUse = FallbackRate /\ channelsInUse = 2

IdleOthers ==
    /\ platform = "win32" /\ devices = <<MonoDevice, StereoDevice>>
    /\ defaultOut = 3 /\ defaultIn = 3
    /\ lbWriter = NullWriter /\ lbStarted = FALSE /\ lbOutPath = "null" /\ lbRt = NullRt
    /\ micWriter = NullWriter /\ micStarted = FALSE /\ micOutPath = "null"
    /\ micRt = NullRt
    /\ store = "null" /\ currentRecorder = "null" /\ currentOutputPath = "null"
    /\ isUnifiedRecording = FALSE
    /\ stopWait = [mixed |-> <<>>, loopback |-> <<>>, mic |-> <<>>]
    /\ ipcWait = <<>>
    /\ rets = <<>> /\ nCalls = 0 /\ nFrames = 0 /\ nFaults = 0
    /\ fed = NoFed /\ wlog = <<>>
    /\ listed = NoListing
    /\ encoder = NoEncoder

\* the two queues hold any frames when the mixer is entered
InitMixer ==
    /\ IdleOthers
    /\ ActiveMixed
    /\ qLoop \in MixerQueues
    /\ qMic \in MixerQueues
    /\ mixIn = [loop |-> qLoop, mic |-> qMic, ran |-> FALSE]

\* one call of pumpMix() on the queues as they stand
RunPumpMix(fails) ==
    LET r == PumpMix(qLoop, qMic, <<>>)
    IN  /\ ~mixIn.ran
        /\ qLoop' = r.qLoop
        /\ qMic' = r.qMic
        /\ wavWriter' = WriteAll(wavWriter, r.writes, 1, fails)
        /\ wlog' = r.writes
        /\ mixIn' = [mixIn EXCEPT !.ran = TRUE]
        /\ UNCHANGED <<envVars, nFaults, rtLoopback, rtMic, started, sampleRateInUse,
                       channelsInUse, lbVars, micVars, mainVars, stopWait, rets,
                       nCalls, nFrames, fed>>

NextMixer == RunPumpMix({})

SpecMixer == InitMixer /\ [][NextMixer]_vars

\* the mixer's loop taken one iteration at a time, from the same queues
PumpMixIteration ==
    LET r == PumpMixOnce(qLoop, qMic)
    IN  /\ qLoop # <<>> \/ qMic # <<>>
        /\ qLoop' = r.qLoop
        /\ qMic' = r.qMic
        /\ wavWriter' = WriteAll(wavWriter, r.writes, 1, {})
        /\ wlog' = r.writes
        /\ UNCHANGED <<envVars, nFaults, rtLoopback, rtMic, started, sampleRateInUse,
                       channelsInUse, lbVars, micVars, mainVars, stopWait, rets,
                       nCalls, nFrames, fed, mixIn>>

NextMixerLoop == PumpMixIteration

SpecMixerLoop == InitMixer /\ [][NextMixerLoop]_vars

\* ------------------------------------------ the end-to-end mixed scenario
\* a frame of n samples, all of value v
ConstFrame(n, v) == [k \in 1..(2 * n) |-> IF k % 2 = 1 THEN Int16LoByte(v) ELSE Int16HiByte(v)]

\* loopback delivers frames of frameSize samples, the microphone frames of
\* half that length
ScenarioLoopFrame == ConstFrame(FrameSize, 1000)
ScenarioMicFrame == ConstFrame(FrameSize \div 2, -3)

InitScenario ==
    /\ platform = "win32"
    /\ devices = <<MonoDevice, StereoDevice>>
    /\ defaultOut = 3
    /\ defaultIn \in DefaultIds
    /\ InitModules

ScenarioStart ==
    /\ Request(Start([outputPath |-> "null"], Env("none")))
ScenarioLoop ==
    /\ nFrames < MaxScenarioFrames
    /\ OnLoop(ScenarioLoopFrame, {})
    /\ UNCHANGED nFaults
ScenarioMic ==
    /\ nFrames < MaxScenarioFrames
    /\ OnMic(ScenarioMicFrame, {})
    /\ UNCHANGED nFaults

NextScenario == ScenarioStart \/ ScenarioLoop \/ ScenarioMic

SpecScenario == InitScenario /\ [][NextScenario]_vars

\* ------------------------------------------------- the devices a start meets
\* endpoints with more than two input channels, and with no channel count or
\* rate reported
QuadDevice ==
    [id |-> 4, isDefaultOutput |-> FALSE, isDefaultInput |-> TRUE,
     inputChannels |-> 4, preferredSampleRate |-> 96000]
BareDevice ==
    [id |-> 5, isDefaultOutput |-> FALSE, isDefaultInput |-> FALSE,
     inputChannels |-> 0, preferredSampleRate |-> 0]
WideDeviceLists ==
    {<<StereoDevice>>, <<BareDevice>>, <<MonoDevice, QuadDevice>>,
     <<QuadDevice, StereoDevice>>}

\* one interleaved sample frame of an n-channel stream, every sample v
StreamFrames(n) == {Pcm([k \in 1..n |-> v]) : v \in {1, -32768}}

InitDevices ==
    /\ platform = "win32"
    /\ devices \in WideDeviceLists
    /\ defaultOut \in DefaultIds
    /\ defaultIn \in DefaultIds
    /\ InitModules

DevStart == Request(Start([outputPath |-> "null"], Env("none")))
DevStartLoopback == Request(StartLoopback([outputPath |-> "null"], Env("none")))
DevStartMic == Request(StartMic([outputPath |-> "null"], Env("none")))
DevLoopFrame ==
    \E pcm \in StreamFrames(rtLoopback.nChannels) : Deliver(OnLoop(pcm, {}), FALSE)
DevMicFrame ==
    \E pcm \in StreamFrames(rtMic.nChannels) : Deliver(OnMic(pcm, {}), FALSE)
DevLbFrame ==
    \E pcm \in StreamFrames(lbRt.nChannels) : Deliver(LbOnLoop(pcm, FALSE), FALSE)
DevMcFrame ==
    \E pcm \in StreamFrames(micRt.nChannels) : Deliver(MicOnMic(pcm, FALSE), FALSE)

\* a caller naming the endpoints it wants: opts = {speakerDeviceId, micDeviceId}
\* (0: not given).  start, startLoopback and startMic read opts.outputPath only.
ListedIds == {devices[k].id : k \in DOMAIN devices}
DeviceOpts(out, in) == [outputPath |-> "null", speakerDeviceId |-> out, micDeviceId |-> in]
DevStartOn(out, in) == Request(Start(DeviceOpts(out, in), Env("none")))
DevStartLoopbackOn(out) == Request(StartLoopback(DeviceOpts(out, 0), Env("none")))
DevStartMicOn(in) == Request(StartMic(DeviceOpts(0, in), Env("none")))
DevStartNamed == \E out, in \in ListedIds : DevStartOn(out, in)
DevStartLoopbackNamed == \E out \in ListedIds : DevStartLoopbackOn(out)
DevStartMicNamed == \E in \in ListedIds : DevStartMicOn(in)

\* sessions of the three modes on each kind of endpoint, their streams
\* delivering frames of the layout they were opened with
NextDevices ==
    \/ DevStart \/ DevStartLoopback \/ DevStartMic
    \/ DevStartNamed \/ DevStartLoopbackNamed \/ DevStartMicNamed
    \/ DevLoopFrame \/ DevMicFrame \/ DevLbFrame \/ DevMcFrame

SpecDevices == InitDevices /\ [][NextDevices]_vars

\* ------------------------------------------------ stop calls and their return
\* the steps the program and its callers take by themselves; the writers' end
\* callbacks (WavEnded, LbEnded, MicEnded) are the file system's to deliver
Scheduled ==
    \/ CallStart \/ CallStop
    \/ CallStartLoopback \/ CallStopLoopback
    \/ CallStartMic \/ CallStopMic
    \/ LoopFrame \/ MicFrame \/ LbFrame \/ McFrame

SpecLive == Init /\ [][Next]_vars /\ WF_vars(Scheduled)

\* --------------------------------------------- main process: 'devices:list'
\* one line of FFmpeg's -list_devices output: whether it matches
\* /Capture devices/i or /Render devices/i, and the quoted name it holds
\* ("null": none)
DeviceNames == {"default", "Microphone", "Stereo Mix"}
Lines == [header : {"capture", "render", "none"}, name : {"null"} \cup DeviceNames]
Stderrs == UNION {[1..n -> Lines] : n \in 0..MaxLines}
Engines == {"wasapi", "dshow", "null"}

\* loopbackPatterns.some((rx) => rx.test(name))
IsLoopbackName(name) == name = "Stereo Mix"

\* if (!list.includes('default')) list.unshift('default')
WithDefaultMissing(list) == list

WithDefault(list) ==
    IF \E i \in DOMAIN list : list[i] = "default" THEN list ELSE <<"default">> \o list

\* if (!list.length) list.push('default')
OrDefault(list) == IF list = <<>> THEN <<"default">> ELSE list

\* the for loop of parseWasapiDevices: mode follows the headers, a quoted
\* name goes to the bucket of the current mode
RECURSIVE WasapiScan(_, _, _, _)
WasapiScan(lines, mode, capture, render) ==
    IF lines = <<>> THEN [capture |-> capture, render |-> render]
    ELSE LET line == Head(lines)
             m == IF line.header # "none" THEN line.header ELSE mode
             hit == line.name # "null"
         IN  WasapiScan(Tail(lines), m,
                        IF hit /\ m = "capture" THEN Append(capture, line.name) ELSE capture,
                        IF hit /\ m = "render" THEN Append(render, line.name) ELSE render)

ParseWasapiDevices(stderr) ==
    LET r == WasapiScan(stderr, "null", <<>>, <<>>)
    IN  [capture |-> WithDefault(r.capture), render |-> WithDefault(r.render)]

\* the for loop of parseDshowDevices: every quoted name is a capture
\* candidate, the loopback-like ones are render devices too
RECURSIVE DshowScan(_, _, _)
DshowScan(lines, capture, render) ==
    IF lines = <<>> THEN [capture |-> capture, render |-> render]
    ELSE LET line == Head(lines)
             hit == line.name # "null"
         IN  DshowScan(Tail(lines),
                       IF hit THEN Append(capture, line.name) ELSE capture,
                       IF hit /\ IsLoopbackName(line.name)
                       THEN Append(render, line.name) ELSE render)

ParseDshowDevices(stderr) ==
    LET r == DshowScan(stderr, <<>>, <<>>)
    IN  [capture |-> OrDefault(r.capture), render |-> OrDefault(r.render)]

\* listDevicesByEngine(engine)
ListDevicesByEngine(engine, stderr) ==
    IF engine = "wasapi" THEN ParseWasapiDevices(stderr) ELSE ParseDshowDevices(stderr)

\* the 'devices:list' handler, for the engine detectInputEngine() found
DevicesList ==
    LET r == IF listed.engine = "null"
             THEN [capture |-> <<"default">>, render |-> <<"default">>]
             ELSE ListDevicesByEngine(listed.engine, listed.stderr)
    IN  /\ ~listed.done
        /\ listed' = [listed EXCEPT !.capture = r.capture, !.render = r.render,
                                    !.done = TRUE]
        /\ UNCHANGED <<platform, devices, defaultOut, defaultIn, nFaults, mixedVars,
                       lbVars, micVars, mainVars, stopWait, rets, nCalls, nFrames,
                       fed, wlog, mixIn>>

InitListing ==
    /\ platform \in {"win32", "linux"}
    /\ devices = <<>> /\ defaultOut = 3 /\ defaultIn = 3
    /\ rtLoopback = NullRt /\ rtMic = NullRt /\ wavWriter = NullWriter
    /\ started = FALSE /\ qLoop = <<>> /\ qMic = <<>>
    /\ sampleRateInUse = FallbackRate /\ channelsInUse = 2
    /\ stopWait = [mixed |-> <<>>, loopback |-> <<>>, mic |-> <<>>]
    /\ rets = <<>> /\ nCalls = 0 /\ nFrames = 0 /\ nFaults = 0
    /\ fed = NoFed /\ wlog = <<>> /\ mixIn = NoMixIn
    /\ lbWriter = NullWriter /\ lbStarted = FALSE /\ lbOutPath = "null" /\ lbRt = NullRt
    /\ micWriter = NullWriter /\ micStarted = FALSE /\ micOutPath = "null"
    /\ micRt = NullRt
    /\ store = "null" /\ currentRecorder = "null" /\ currentOutputPath = "null"
    /\ isUnifiedRecording = FALSE /\ ipcWait = <<>>
    /\ encoder = NoEncoder
    /\ \E e \in Engines, err \in Stderrs : listed = [NoListing EXCEPT !.engine = e, !.stderr = err]

NextListing == DevicesList

SpecListing == InitListing /\ [][NextListing]_vars

\* ------------------------------- recorder.js: callbacks on frames of any length
\* buf.readInt16LE(i) throws a RangeError unless i + 2 <= buf.length.  The loop
\* of mixInt16Stereo and the mono duplication loop step i by 2 while i < length,
\* so on a buffer of odd length their last read throws; neither loop is inside
\* a try block.
MixThrows(bufA, bufB) == Min(Len(bufA), Len(bufB)) % 2 = 1
DuplicationThrows(pcm, nChannels) == nChannels = 1 /\ Len(pcm) % 2 = 1

\* pumpMix() up to the first mix that throws.  With one head, or two of equal
\* length, the heads are shifted before mixInt16Stereo is called; with two of
\* different lengths the mix comes first and both heads stay queued.
RECURSIVE PumpMixThrowing(_, _, _)
PumpMixThrowing(ql, qm, w) ==
    LET out(l, m, t) == [qLoop |-> l, qMic |-> m, writes |-> w, thrown |-> t]
    IN  IF ql = <<>> /\ qm = <<>> THEN out(ql, qm, FALSE)
        ELSE IF qm = <<>> /\ MixThrows(Head(ql), Head(ql)) THEN out(Tail(ql), qm, TRUE)
        ELSE IF ql = <<>> /\ MixThrows(Head(qm), Head(qm)) THEN out(ql, Tail(qm), TRUE)
        ELSE IF ql # <<>> /\ qm # <<>> /\ MixThrows(Head(ql), Head(qm))
        THEN IF Len(Head(ql)) = Len(Head(qm)) THEN out(Tail(ql), Tail(qm), TRUE)
                                               ELSE out(ql, qm, TRUE)
        ELSE LET r == PumpMixOnce(ql, qm)
             IN  PumpMixThrowing(r.qLoop, r.qMic, w \o r.writes)

\* what the audio subsystem gets back from a callback: a return or an exception
CallbackOps == {"onLoop", "onMic", "lbOnLoop", "micOnMic"}
Returned(op, thrown) ==
    <<Answer(nFrames + 1, op, ~thrown, IF thrown THEN "RangeError" ELSE "", "null",
             TRUE, "null")>>

\* onLoop(pcm) of the mixed mode
OnLoopAnyLength(pcm) ==
    LET r == PumpMixThrowing(Append(qLoop, pcm), qMic, <<>>)
    IN  /\ rtLoopback.st = "running"
        /\ qLoop' = r.qLoop
        /\ qMic' = r.qMic
        /\ wavWriter' = WriteAll(wavWriter, r.writes, 1, {})
        /\ wlog' = r.writes
        /\ fed' = [fed EXCEPT !.loop = @ + Len(pcm)]
        /\ nFrames' = nFrames + 1
        /\ rets' = Returned("onLoop", r.thrown)
        /\ UNCHANGED <<envVars, rtLoopback, rtMic, started, sampleRateInUse,
                       channelsInUse, lbVars, micVars, mainVars, stopWait,
                       nCalls, mixIn>>

\* onMic(pcm) of the mixed mode
OnMicAnyLength(pcm) ==
    LET dup == DuplicationThrows(pcm, rtMic.nChannels)
        r == IF dup THEN [qLoop |-> qLoop, qMic |-> qMic, writes |-> <<>>, thrown |-> TRUE]
             ELSE PumpMixThrowing(qLoop, Append(qMic, Normalize(pcm, rtMic.nChannels)), <<>>)
    IN  /\ rtMic.st = "running"
        /\ qLoop' = r.qLoop
        /\ qMic' = r.qMic
        /\ wavWriter' = WriteAll(wavWriter, r.writes, 1, {})
        /\ wlog' = r.writes
        /\ fed' = [fed EXCEPT !.mic = @ + Len(pcm)]
        /\ nFrames' = nFrames + 1
        /\ rets' = Returned("onMic", r.thrown)
        /\ UNCHANGED <<envVars, rtLoopback, rtMic, started, sampleRateInUse,
                       channelsInUse, lbVars, micVars, mainVars, stopWait,
                       nCalls, mixIn>>

\* onLoop(pcm) of the loopback-only mode: the whole body is the guarded write
LbOnLoopAnyLength(pcm) ==
    /\ lbRt.st = "running"
    /\ lbWriter' = Write(lbWriter, pcm, FALSE)
    /\ fed' = [fed EXCEPT !.lb = @ \o pcm]
    /\ nFrames' = nFrames + 1
    /\ rets' = Returned("lbOnLoop", FALSE)
    /\ UNCHANGED <<envVars, mixedVars, lbStarted, lbOutPath, lbRt, micVars,
                   mainVars, stopWait, nCalls, wlog, mixIn>>

\* onMic(pcm) of the mic-only mode
MicOnMicAnyLength(pcm) ==
    LET dup == DuplicationThrows(pcm, micRt.nChannels)
    IN  /\ micRt.st = "running"
        /\ micWriter' = IF dup THEN micWriter
                        ELSE Write(micWriter, Normalize(pcm, micRt.nChannels), FALSE)
        /\ fed' = [fed EXCEPT !.mc = @ \o pcm]
        /\ nFrames' = nFrames + 1
        /\ rets' = Returned("micOnMic", dup)
        /\ UNCHANGED <<envVars, mixedVars, micStarted, micOutPath, micRt, lbVars,
                       mainVars, stopWait, nCalls, wlog, mixIn>>

\* buffers of two, three and four bytes
RawFrames == {<<1, 0>>, <<1, 0, 255>>, <<255, 127, 0, 128>>}

InitCallbacks ==
    /\ platform = "win32"
    /\ devices = <<MonoDevice, StereoDevice>>
    /\ defaultOut \in DefaultIds
    /\ defaultIn \in DefaultIds
    /\ InitModules

AnyLoopFrame == \E pcm \in RawFrames : Deliver(OnLoopAnyLength(pcm), FALSE)
AnyMicFrame == \E pcm \in RawFrames : Deliver(OnMicAnyLength(pcm), FALSE)
AnyLbFrame == \E pcm \in RawFrames : Deliver(LbOnLoopAnyLength(pcm), FALSE)
AnyMcFrame == \E pcm \in RawFrames : Deliver(MicOnMicAnyLength(pcm), FALSE)

\* sessions of the three modes whose streams deliver buffers of any byte count
NextCallbacks ==
    \/ DevStart \/ DevStartLoopback \/ DevStartMic
    \/ AnyLoopFrame \/ AnyMicFrame \/ AnyLbFrame \/ AnyMcFrame

SpecCallbacks == InitCallbacks /\ [][NextCallbacks]_vars

\* ------------------------- main process: 'recording:start' / 'stop' with FFmpeg
\* the child processes spawn() returns, by order of creation
ProcIds == <<"ffmpeg#1", "ffmpeg#2", "ffmpeg#3", "ffmpeg#4">>
Pid(k) == ProcIds[k]

\* a 'recording:start' handler parked at await initStore() ("store") or at
\* await detectInputEngine() / listDevicesByEngine() ("listing")
Parked(id, outPath, at) == [id |-> id, outPath |-> outPath, at |-> at]

\* a spawned process with the closure of the handler's promise: started is the
\* closure's flag, signalled whether 'recording:stop' has asked it to quit
Proc(id, outPath) ==
    [id |-> id, outPath |-> outPath, st |-> "running", started |-> FALSE,
     signalled |-> FALSE]

\* a 'recording:stop' promise waiting for proc.on('close')
CloseWaiter(id, pid, outPath) == [id |-> id, pid |-> pid, outPath |-> outPath]

EncAnswer(id, op, ok, err, outPath) ==
    Answer(id, op, ok, err, outPath, currentRecorder # "null", "null")

Without(seq, k) == SubSeq(seq, 1, k - 1) \o SubSeq(seq, k + 1, Len(seq))

\* ipcMain.handle('recording:start') off win32, to its first await:
\*   if (currentRecorder) throw ...; const s = await initStore();
\* with the store loaded the handler runs on to currentOutputPath = outPath and
\* parks at the listing of the engine's devices
EncRecordingStart(outPath) ==
    /\ platform # "win32"
    /\ nCalls' = nCalls + 1
    /\ IF currentRecorder # "null"
       THEN /\ rets' = <<EncAnswer(nCalls + 1, "recording:start", FALSE,
                                   "AlreadyInProgress", "null")>>
            /\ UNCHANGED <<encoder, currentOutputPath>>
       ELSE IF store = "null"
       THEN /\ encoder' = [encoder EXCEPT !.starting =
                               Append(@, Parked(nCalls + 1, outPath, "store"))]
            /\ UNCHANGED <<rets, currentOutputPath>>
       ELSE /\ encoder' = [encoder EXCEPT !.starting =
                               Append(@, Parked(nCalls + 1, outPath, "listing"))]
            /\ currentOutputPath' = outPath
            /\ UNCHANGED rets
    /\ UNCHANGED <<envVars, mixedVars, lbVars, micVars, store, currentRecorder,
                   isUnifiedRecording, ipcWait, stopWait, nFrames, fed, wlog, mixIn>>

\* the import of the store resolves: the handlers parked on it continue in
\* order, each setting currentOutputPath, to the listing
EncStoreLoaded ==
    LET waiting == {k \in DOMAIN encoder.starting : encoder.starting[k].at = "store"}
        last == CHOOSE k \in waiting : \A j \in waiting : j <= k
    IN  /\ platform # "win32"
        /\ store = "null"
        /\ store' = "ready"
        /\ encoder' = [encoder EXCEPT !.starting =
                           [k \in DOMAIN @ |-> [@[k] EXCEPT !.at = "listing"]]]
        /\ currentOutputPath' =
               IF waiting = {} THEN currentOutputPath ELSE encoder.starting[last].outPath
        /\ UNCHANGED <<envVars, nFaults, mixedVars, lbVars, micVars, currentRecorder,
                       isUnifiedRecording, ipcWait, stopWait, rets, nCalls, nFrames,
                       fed, wlog, mixIn>>

\* the listing a handler awaits resolves:
\*   if (!engine) throw ...; proc = spawn(bin, args); currentRecorder = proc;
\* the promise it returns is settled by the process (EncStreamMapping, EncClose)
EncListed(k) ==
    LET h == encoder.starting[k]
    IN  /\ k \in DOMAIN encoder.starting
        /\ h.at = "listing"
        /\ IF encoder.engine = "null"
           THEN /\ rets' = <<EncAnswer(h.id, "recording:start", FALSE, "NoInputEngine",
                                       "null")>>
                /\ encoder' = [encoder EXCEPT !.starting = Without(@, k)]
                /\ UNCHANGED currentRecorder
           ELSE /\ encoder' = [encoder EXCEPT !.starting = Without(@, k),
                                              !.procs = Append(@, Proc(h.id, h.outPath))]
                /\ currentRecorder' = Pid(Len(encoder.procs) + 1)
                /\ UNCHANGED rets
        /\ UNCHANGED <<envVars, nFaults, mixedVars, lbVars, micVars, store,
                       currentOutputPath, isUnifiedRecording, ipcWait, stopWait,
                       nCalls, nFrames, fed, wlog, mixIn>>

\* proc.stderr.on('data'): the first chunk matching /Stream mapping|Press \[q\]/
\* sets started and resolves the handler's promise
EncStreamMapping(k) ==
    /\ k \in DOMAIN encoder.procs
    /\ encoder.procs[k].st = "running"
    /\ ~encoder.procs[k].started
    /\ encoder' = [encoder EXCEPT !.procs[k].started = TRUE]
    /\ rets' = <<EncAnswer(encoder.procs[k].id, "recording:start", TRUE, "",
                           encoder.procs[k].outPath)>>
    /\ UNCHANGED <<envVars, nFaults, mixedVars, lbVars, micVars, store,
                   currentRecorder, currentOutputPath, isUnifiedRecording, ipcWait,
                   stopWait, nCalls, nFrames, fed, wlog, mixIn>>

\* the process ends and its 'close' listeners run in the order they were added:
\* the start handler's (if (!started && code !== 0) { currentRecorder = null;
\* reject(...) }), then those of the stop requests made on it (resolve).  A
\* spawn that fails ('error', then 'close' with a negative code) has the same
\* effect as an early exit with a non-zero code.
EncClose(k, code) ==
    LET p == encoder.procs[k]
        failed == ~p.started /\ code # 0
        mine(w) == w.pid = Pid(k)
        others(w) == w.pid # Pid(k)
        resolved == SelectSeq(encoder.stops, mine)
        answers ==
            (IF failed
             THEN <<EncAnswer(p.id, "recording:start", FALSE, "FailedToStart", "null")>>
             ELSE <<>>)
            \o [i \in DOMAIN resolved |->
                   EncAnswer(resolved[i].id, "recording:stop", TRUE, "",
                             resolved[i].outPath)]
    IN  /\ k \in DOMAIN encoder.procs
        /\ p.st = "running"
        /\ encoder' = [encoder EXCEPT !.procs[k].st = "exited",
                                      !.stops = SelectSeq(@, others)]
        /\ currentRecorder' = IF failed THEN "null" ELSE currentRecorder
        /\ rets' = IF answers = <<>> THEN rets ELSE answers
        /\ UNCHANGED <<envVars, nFaults, mixedVars, lbVars, micVars, store,
                       currentOutputPath, isUnifiedRecording, ipcWait, stopWait,
                       nCalls, nFrames, fed, wlog, mixIn>>

\* ipcMain.handle('recording:stop') off win32:
\*   if (!currentRecorder) return { ok: false };
\*   proc = currentRecorder; both variables nulled; proc.kill('SIGINT');
\*   proc.on('close', () => resolve(...)); setTimeout(SIGKILL, 3000)
\* a signal to a process that has exited does nothing
EncRecordingStop ==
    LET k == CHOOSE j \in DOMAIN ProcIds : Pid(j) = currentRecorder
    IN  /\ platform # "win32"
        /\ nCalls' = nCalls + 1
        /\ IF currentRecorder = "null"
           THEN /\ rets' = <<EncAnswer(nCalls + 1, "recording:stop", FALSE, "", "null")>>
                /\ UNCHANGED <<encoder, currentRecorder, currentOutputPath>>
           ELSE /\ encoder' = [encoder EXCEPT
                       !.procs[k].signalled = TRUE,
                       !.stops = Append(@, CloseWaiter(nCalls + 1, currentRecorder,
                                                       currentOutputPath))]
                /\ currentRecorder' = "null"
                /\ currentOutputPath' = "null"
                /\ UNCHANGED rets
        /\ UNCHANGED <<envVars, mixedVars, lbVars, micVars, store, isUnifiedRecording,
                       ipcWait, stopWait, nFrames, fed, wlog, mixIn>>

\* a machine that is not Windows, with whatever input engine its FFmpeg offers
InitEncoder ==
    /\ platform = "linux"
    /\ devices \in DeviceLists
    /\ defaultOut = 2 /\ defaultIn = 2
    /\ rtLoopback = NullRt /\ rtMic = NullRt /\ wavWriter = NullWriter
    /\ started = FALSE /\ qLoop = <<>> /\ qMic = <<>>
    /\ sampleRateInUse = FallbackRate /\ channelsInUse = 2
    /\ lbWriter = NullWriter /\ lbStarted = FALSE /\ lbOutPath = "null" /\ lbRt = NullRt
    /\ micWriter = NullWriter /\ micStarted = FALSE /\ micOutPath = "null"
    /\ micRt = NullRt
    /\ store = "null" /\ currentRecorder = "null" /\ currentOutputPath = "null"
    /\ isUnifiedRecording = FALSE
    /\ stopWait = [mixed |-> <<>>, loopback |-> <<>>, mic |-> <<>>]
    /\ ipcWait = <<>>
    /\ rets = <<>> /\ nCalls = 0 /\ nFrames = 0 /\ nFaults = 0
    /\ fed = NoFed /\ wlog = <<>> /\ mixIn = NoMixIn
    /\ listed = NoListing
    /\ \E e \in Engines : encoder = [NoEncoder EXCEPT !.engine = e]

EncInvokeStart == \E p \in IpcPaths : Request(EncRecordingStart(p))
EncInvokeStop == Request(EncRecordingStop)
EncContinue == EncStoreLoaded \/ \E k \in 1..MaxCalls : EncListed(k)
EncStarted == \E k \in 1..MaxCalls : EncStreamMapping(k)
\* a process exits by itself (its input ended, it crashed) ...
EncExits ==
    \E k \in 1..MaxCalls, code \in {0, 1} :
        k \in DOMAIN encoder.procs /\ ~encoder.procs[k].signalled /\ EncClose(k, code)
\* ... or because 'recording:stop' signalled it: SIGINT, then SIGKILL after 3 s
EncQuits ==
    \E k \in 1..MaxCalls, code \in {0, 1} :
        k \in DOMAIN encoder.procs /\ encoder.procs[k].signalled /\ EncClose(k, code)

NextEncoder ==
    \/ EncInvokeStart \/ EncInvokeStop
    \/ EncContinue \/ EncStarted \/ EncExits \/ EncQuits

SpecEncoder == InitEncoder /\ [][NextEncoder]_vars

\* the handlers' continuations run, and a signalled process ends within the
\* 3 s of the SIGKILL timer; requests and a process's own exit are not forced
SpecEncoderLive ==
    InitEncoder /\ [][NextEncoder]_vars /\ WF_vars(EncContinue) /\ WF_vars(EncQuits)

\* ================================================================ properties
StartOps == {"start", "startLoopback", "startMic"}
StopOps == {"stop", "stopLoopback", "stopMic"}

\* the started flag of the mode an operation belongs to
ModeStarted(op) ==
    IF op \in {"start", "stop"} THEN started
    ELSE IF op \in {"startLoopback", "stopLoopback"} THEN lbStarted
    ELSE micStarted

\* this step is a call of op that answered before returning to the event loop
Answered(op) ==
    /\ nCalls' = nCalls + 1
    /\ rets' # <<>>
    /\ rets'[1].id = nCalls'
    /\ rets'[1].op = op

\* C1: a start of a mode whose session is active throws 'already in progress'
\* and leaves that mode's state (stream handles, writer with its path and
\* data, queues, started flag, recorded output path) as it was.
C1_StartWhileActiveRejected ==
    [][\A op \in StartOps :
          (Answered(op) /\ ModeStarted(op)) =>
              /\ ~rets'[1].ok
              /\ rets'[1].err = "AlreadyInProgress"
              /\ op = "start" => UNCHANGED mixedVars
              /\ op = "startLoopback" => UNCHANGED lbVars
              /\ op = "startMic" => UNCHANGED micVars
              /\ UNCHANGED stopWait]_vars

\* C1 witness: a start was rejected while its session was running with data
\* already written
C1_Witness ==
    /\ rets # <<>>
    /\ rets[1].op = "startLoopback"
    /\ rets[1].err = "AlreadyInProgress"
    /\ lbStarted /\ lbRt.st = "running" /\ lbWriter.st = "open"
    /\ lbWriter.data # <<>>

\* C2: on win32 a 'recording:start' that arrives while a recording started by
\* an earlier 'recording:start' is active fails and leaves the recorder as it
\* was, and the next 'recording:stop' still stops that recording (its streams
\* closed, its writer's end requested, the request waiting for the end to
\* answer {ok:true}).
C2_ActiveRecordingStaysStoppable ==
    [][/\ (InvokeRecordingStart /\ store = "ready" /\ started /\ wavWriter.st = "open"
             /\ wavWriter.path \in IpcPaths)
          => (~rets'[1].ok /\ UNCHANGED mixedVars)
       /\ (InvokeRecordingStop /\ started /\ wavWriter.st = "open"
             /\ wavWriter.path \in IpcPaths)
          => (/\ wavWriter'.st = "ending"
              /\ rtLoopback'.st = "closed" /\ rtMic'.st = "closed"
              /\ Len(stopWait'.mixed) = 1
              /\ stopWait'.mixed[1].caller = "ipc")]_vars

\* C3: when a start fails after creating a resource, no stream instance or
\* stream of the attempt is left in a handle and no writer is left open.
FailedAfterCreating == {"NoOutputDevice", "NoInputDevice", "OpenFailed", "StartFailed"}
C3_FailedStartReleasesAll ==
    [][\A op \in StartOps :
          (Answered(op) /\ rets'[1].err \in FailedAfterCreating) =>
              /\ op = "start" =>
                    (rtLoopback' = NullRt /\ rtMic' = NullRt /\ wavWriter'.st # "open")
              /\ op = "startLoopback" => (lbRt' = NullRt /\ lbWriter'.st # "open")
              /\ op = "startMic" => (micRt' = NullRt /\ micWriter'.st # "open")]_vars

\* C4: a stop of a mode that is not active (so also a second stop after one
\* that completed) returns {ok:false}, throws nothing, and changes no module
\* state: no stream or writer is touched.
C4_StopWhenIdleIsNoop ==
    [][\A op \in StopOps :
          (Answered(op) /\ ~ModeStarted(op)) =>
              /\ ~rets'[1].ok
              /\ rets'[1].err = ""
              /\ UNCHANGED <<mixedVars, lbVars, micVars, stopWait>>]_vars

\* C4 witness: stop answered {ok:false} after a mixed session had been started
\* and stopped (the rate start chose is still recorded, the writer is gone)
C4_Witness ==
    /\ rets # <<>>
    /\ rets[1].op = "stop" /\ ~rets[1].ok /\ rets[1].id = nCalls
    /\ ~started /\ wavWriter = NullWriter /\ rtLoopback = NullRt
    /\ sampleRateInUse = StereoDevice.preferredSampleRate

\* C5: the path a successful stop returns is the path its session's writer
\* was opened on (which is what the matching start returned).
C5_StopReturnsSessionPath ==
    \A i \in DOMAIN rets :
        (rets[i].op \in StopOps /\ rets[i].ok) => rets[i].outPath = rets[i].writerPath

\* C6: when loopback has delivered frames of frameSize samples and the
\* microphone as many frames of half that length, and the mixer has run after
\* each, the sink holds as many samples as loopback delivered.
C6_OutputSpansLoopback ==
    (started /\ fed.loop = 2 * fed.mic /\ qLoop = <<>> /\ qMic = <<>>)
        => Len(wavWriter.data) = fed.loop

\* C7: mixing two frames of equal length gives a frame of that length whose
\* i-th sample is clamp16((a_i + b_i) >> 1), >> rounding toward minus infinity.
Clamp16(x) == IF x > 32767 THEN 32767 ELSE IF x < -32768 THEN -32768 ELSE x
C7_EqualFramesAverage ==
    (mixIn.ran /\ Len(mixIn.loop) = 1 /\ Len(mixIn.mic) = 1
        /\ Len(mixIn.loop[1]) = Len(mixIn.mic[1]))
    => LET A == Samples(mixIn.loop[1])
           B == Samples(mixIn.mic[1])
       IN  /\ Len(wlog) = 1
           /\ Len(wlog[1]) = Len(mixIn.loop[1])
           /\ Samples(wlog[1]) = [i \in 1..Len(A) |-> Clamp16((A[i] + B[i]) \div 2)]

\* C7 witness: 32767 + -32768 averaged to -1 (not 0), -32768 + -32768 to -32768
C7_Witness ==
    /\ mixIn.ran
    /\ mixIn.loop = <<Pcm(<<32767, -32768>>)>>
    /\ mixIn.mic = <<Pcm(<<-32768, -32768>>)>>
    /\ wlog = <<Pcm(<<-1, -32768>>)>>

\* C8: with frames in one queue only, each frame A is written as A with every
\* sample shifted right by one (A averaged with silence) and is popped; the
\* same for loopback-only and for mic-only data.
HalvedFrames(q) ==
    [i \in 1..Len(q) |->
        Pcm([k \in 1..(Len(q[i]) \div 2) |-> Samples(q[i])[k] \div 2])]
C8_LoneFrameHalved ==
    /\ (mixIn.ran /\ mixIn.mic = <<>>) =>
           (wlog = HalvedFrames(mixIn.loop) /\ qLoop = <<>>)
    /\ (mixIn.ran /\ mixIn.loop = <<>>) =>
           (wlog = HalvedFrames(mixIn.mic) /\ qMic = <<>>)

C8_Witness ==
    /\ mixIn.ran
    /\ mixIn.loop = <<>>
    /\ mixIn.mic = <<Pcm(<<32767, -32768>>)>>
    /\ wlog = <<Pcm(<<16383, -16384>>)>>
    /\ wavWriter.data = Pcm(<<16383, -16384>>)

\* C9: the bytes one mixer run writes depend only on the concatenation of each
\* queue's frames: they are those written when each queue holds its frames
\* joined into one.
Joined(q) == IF q = <<>> THEN <<>> ELSE <<Flatten(q)>>
C9_SplitIndependent ==
    mixIn.ran =>
        Flatten(wlog) = Flatten(PumpMix(Joined(mixIn.loop), Joined(mixIn.mic), <<>>).writes)

\* C9 witness: one 4-sample frame against two 2-sample frames, written in two
\* buffers
C9_Witness ==
    /\ mixIn.ran
    /\ Len(mixIn.loop) = 1 /\ Len(mixIn.loop[1]) = 8
    /\ Len(mixIn.mic) = 2 /\ Len(mixIn.mic[1]) = 4 /\ Len(mixIn.mic[2]) = 4
    /\ mixIn.mic[1] # mixIn.mic[2]
    /\ Len(wlog) = 2

\* C10: in loopback-only mode, and in mic-only mode with a 2-channel stream,
\* while no write has failed the writer holds exactly the delivered frames,
\* concatenated in delivery order.
C10_SingleSourcePassThrough ==
    /\ (lbStarted /\ lbWriter.lost = 0) => lbWriter.data = fed.lb
    /\ (micStarted /\ micRt.nChannels = 2 /\ micWriter.lost = 0) => micWriter.data = fed.mc

\* C10 witness: two different frames delivered to a stereo mic-only session
C10_Witness ==
    /\ micStarted /\ micRt.nChannels = 2 /\ micWriter.lost = 0
    /\ micWriter.data = Pcm(<<32767, -32768, 1, -1>>)

\* C11: in every mode and for every input channel count the device reports,
\* the writer has 2 channels and the rate of the streams that feed it, and
\* what it holds is as many 2-channel sample frames as the streams delivered
\* sample frames in their own channel count.
C11_WrittenFramesMatchHeader ==
    /\ (started /\ wavWriter.lost = 0) =>
           /\ wavWriter.channels = 2 /\ rtLoopback.nChannels = 2
           /\ wavWriter.sampleRate = rtLoopback.sampleRate
           /\ wavWriter.sampleRate = rtMic.sampleRate
           /\ Len(wavWriter.data) * rtMic.nChannels
                  = fed.loop * rtMic.nChannels + fed.mic * wavWriter.channels
    /\ (lbStarted /\ lbWriter.lost = 0) =>
           /\ lbWriter.channels = 2
           /\ lbWriter.sampleRate = lbRt.sampleRate
           /\ Len(lbWriter.data) * lbRt.nChannels = Len(fed.lb) * lbWriter.channels
    /\ (micStarted /\ micWriter.lost = 0) =>
           /\ micWriter.channels = 2
           /\ micWriter.sampleRate = micRt.sampleRate
           /\ Len(micWriter.data) * micRt.nChannels = Len(fed.mc) * micWriter.channels

\* C12: a stop answers {ok:true} only in the step in which its writer's end
\* completes, with the mode's streams already closed; the started flag of a
\* mode is cleared only in that step; and a writer whose end was requested
\* takes no more data.
StreamShut(rt) == rt.st \notin {"open", "running"}
EndCompletes(writer, waiters) == writer.st = "ending" /\ waiters # <<>>
C13_StopAlwaysReturns ==
    /\ (stopWait.mixed # <<>>) ~> (stopWait.mixed = <<>>)
    /\ (stopWait.loopback # <<>>) ~> (stopWait.loopback = <<>>)
    /\ (stopWait.mic # <<>>) ~> (stopWait.mic = <<>>)

\* C14: a start that fails for a missing device, a rejected open or a rejected
\* stream start leaves its mode's started flag false, and a start is rejected
\* as 'already in progress' only when its mode's flag is set, so never on
\* account of an earlier failed start.
C14_FailedStartNotActive ==
    [][\A op \in StartOps :
          /\ (Answered(op) /\ rets'[1].err \in FailedAfterCreating) =>
                /\ ~ModeStarted(op)
                /\ op = "start" => ~started'
                /\ op = "startLoopback" => ~lbStarted'
                /\ op = "startMic" => ~micStarted'
          /\ (Answered(op) /\ rets'[1].err = "AlreadyInProgress") => ModeStarted(op)]_vars

\* C14 witness: the second call is a mixed start that succeeded after the
\* first, also a mixed start, had a stream operation rejected
C14_Witness ==
    /\ rets # <<>>
    /\ rets[1].op = "start" /\ rets[1].ok /\ rets[1].id = 2
    /\ nFaults = 1 /\ started
    /\ lbRt = NullRt /\ micRt = NullRt

\* C15: every start and stop call, in every mode and for every failure,
\* completes by returning a result; none throws or rejects to its caller.
C15_NoCallThrows ==
    \A i \in DOMAIN rets : rets[i].err = ""

\* C16: off win32 every entry point fails with the unsupported-platform error
\* and no module state is touched.
C16_UnsupportedPlatformGate ==
    platform # "win32" =>
        /\ \A i \in DOMAIN rets : ~rets[i].ok /\ rets[i].err = "UnsupportedPlatform"
        /\ rtLoopback = NullRt /\ rtMic = NullRt /\ wavWriter = NullWriter /\ ~started
        /\ lbRt = NullRt /\ lbWriter = NullWriter /\ ~lbStarted
        /\ micRt = NullRt /\ micWriter = NullWriter /\ ~micStarted

\* C17: a step of one mode leaves the other two modes' state unchanged, and a
\* start is rejected only for its platform, its own mode's flag, a missing
\* device or a rejected stream operation, never for another mode's state.
OwnVarsOnly(op) ==
    /\ op \in {"start", "stop"} => UNCHANGED <<lbVars, micVars>>
    /\ op \in {"startLoopback", "stopLoopback"} => UNCHANGED <<mixedVars, micVars>>
    /\ op \in {"startMic", "stopMic"} => UNCHANGED <<mixedVars, lbVars>>
C17_ModesIndependent ==
    [][/\ mixedVars' # mixedVars => UNCHANGED <<lbVars, micVars>>
       /\ lbVars' # lbVars => UNCHANGED <<mixedVars, micVars>>
       /\ micVars' # micVars => UNCHANGED <<mixedVars, lbVars>>
       /\ \A op \in StartOps \cup StopOps : Answered(op) => OwnVarsOnly(op)
       /\ \A op \in StartOps :
             (Answered(op) /\ ~ModeStarted(op) /\ platform = "win32" /\ devices # <<>>
                 /\ rets'[1].err \notin {"OpenFailed", "StartFailed"})
             => rets'[1].ok]_vars

\* C17 witness: the three modes active at once, the last of them started
\* while the other two were running
C17_Witness ==
    /\ started /\ lbStarted /\ micStarted
    /\ rtLoopback.st = "running" /\ lbRt.st = "running" /\ micRt.st = "running"
    /\ rets # <<>> /\ rets[1].ok /\ rets[1].id = 3

\* C18: whatever FFmpeg printed and whichever engine was found, the answer of
\* 'devices:list' has a non-empty capture list and a non-empty render list,
\* and the render list is exactly <<"default">> when no render device was
\* reported.
\* the quoted names the output reports as render devices
RenderReported(engine, stderr) ==
    {i \in DOMAIN stderr :
        /\ stderr[i].name # "null"
        /\ IF engine = "wasapi"
           THEN \E h \in 1..i :
                   /\ stderr[h].header = "render"
                   /\ \A k \in (h + 1)..i : stderr[k].header = "none"
           ELSE engine = "dshow" /\ IsLoopbackName(stderr[i].name)}
C18_DeviceListsNeverEmpty ==
    listed.done =>
        /\ listed.capture # <<>>
        /\ listed.render # <<>>
        /\ RenderReported(listed.engine, listed.stderr) = {} => listed.render = <<"default">>

\* C18 witness: WASAPI output with a capture device and no render device
C18_Witness ==
    /\ listed.done /\ listed.engine = "wasapi"
    /\ listed.capture = <<"default", "Microphone">>
    /\ listed.render = <<"default">>
    /\ \E i \in DOMAIN listed.stderr : listed.stderr[i].header = "render"

\* C19: in mixed mode, whenever no callback is running both queues are empty,
\* whatever the order of the loopback and mic callbacks; so each callback's
\* mixer run finds only the frame just pushed and writes it as one buffer.
C19_QueuesEmptyBetweenCallbacks ==
    /\ qLoop = <<>>
    /\ qMic = <<>>
    /\ Len(wlog) <= 1

\* C19 witness: a loopback and a mic callback have both returned in one session
C19_Witness ==
    /\ started /\ fed.loop > 0 /\ fed.mic > 0
    /\ qLoop = <<>> /\ qMic = <<>>
    /\ Len(wlog) = 1
    /\ Len(wavWriter.data) = fed.loop + fed.mic

\* C20: one mixer run over any two queues ends with both queues empty, its
\* output is as long as the longer of the two queues' byte sequences, and the
\* output sample at each position is the mix of the two samples queued at
\* that position (silence past the end of the shorter sequence): every queued
\* sample is used once, at its own position.
PaddedSample(x, k) == IF k <= Len(x) THEN x[k] ELSE 0
C20_EverySampleMixedOnce ==
    mixIn.ran =>
        LET L == Samples(Flatten(mixIn.loop))
            M == Samples(Flatten(mixIn.mic))
            out == Flatten(wlog)
        IN  /\ qLoop = <<>> /\ qMic = <<>>
            /\ Len(out) = Max(Len(Flatten(mixIn.loop)), Len(Flatten(mixIn.mic)))
            /\ Samples(out) =
                   [k \in 1..Max(Len(L), Len(M)) |->
                       Clamp16((PaddedSample(L, k) + PaddedSample(M, k)) \div 2)]

\* C20 witness: queues of different total length, one with an empty frame
\* ahead of a longer one, the other with two frames
C20_Witness ==
    /\ mixIn.ran
    /\ Len(mixIn.loop) = 2 /\ mixIn.loop[1] = <<>> /\ Len(mixIn.loop[2]) = 6
    /\ Len(mixIn.mic) = 2 /\ Len(mixIn.mic[1]) = 2 /\ Len(mixIn.mic[2]) = 2
    /\ Len(Flatten(wlog)) = 6
    /\ qLoop = <<>> /\ qMic = <<>>

\* C21: an iteration of the mixer that finds both heads present with
\* different lengths writes the mix of their prefixes of the shorter length,
\* pops the shorter head, puts the rest of the longer head in its place, and
\* leaves the frames behind both heads as they were.
C21_UnequalHeadsSplit ==
    [][(qLoop # <<>> /\ qMic # <<>> /\ Len(Head(qLoop)) # Len(Head(qMic))) =>
          LET a == Head(qLoop)
              b == Head(qMic)
              n == Min(Len(a), Len(b))
              rest(x) == SubSeq(x, n + 1, Len(x))
          IN  /\ wlog' = <<MixInt16Stereo(SubSeq(a, 1, n), SubSeq(b, 1, n))>>
              /\ wavWriter'.data = wavWriter.data \o wlog'[1]
              /\ IF Len(a) > n
                 THEN qLoop' = <<rest(a)>> \o Tail(qLoop) /\ qMic' = Tail(qMic)
                 ELSE qLoop' = Tail(qLoop) /\ qMic' = <<rest(b)>> \o Tail(qMic)]_vars

\* C21 witness: the remainder of a longer mic head stands ahead of the frame
\* that was behind it, the loopback queue is one frame shorter
C21_Witness ==
    /\ Len(mixIn.loop) = 2 /\ Len(mixIn.mic) = 2
    /\ Len(mixIn.loop[1]) = 2 /\ Len(mixIn.mic[1]) = 6
    /\ Len(wlog) = 1 /\ Len(wlog[1]) = 2
    /\ qLoop = Tail(mixIn.loop)
    /\ qMic = <<SubSeq(mixIn.mic[1], 3, 6), mixIn.mic[2]>>
    /\ mixIn.mic[2] # <<>>

\* C22: a write that throws inside a source callback loses that buffer only:
\* the mode stays active with its streams running and its writer open, the
\* mixed queues are drained, and a frame delivered with no failing write is
\* appended to the writer, whether or not an earlier write failed.
FrameStep == nFrames' = nFrames + 1
WriteThrew == nFaults' = nFaults + 1
NewBytes(old, new) == SubSeq(new, Len(old) + 1, Len(new))
Appended(w, v, bytes) ==
    IF WriteThrew
    THEN v = [w EXCEPT !.lost = @ + 1]
    ELSE v = [w EXCEPT !.data = @ \o bytes]
C22_WriteFailureLosesOneBuffer ==
    [][FrameStep =>
          /\ UNCHANGED <<started, rtLoopback, rtMic, lbStarted, lbRt, micStarted, micRt>>
          /\ qLoop' = <<>> /\ qMic' = <<>>
          /\ fed'.lb # fed.lb =>
                /\ lbStarted /\ lbWriter.st = "open"
                /\ Appended(lbWriter, lbWriter', NewBytes(fed.lb, fed'.lb))
          /\ fed'.mc # fed.mc =>
                /\ micStarted /\ micWriter.st = "open"
                /\ Appended(micWriter, micWriter',
                            Normalize(NewBytes(fed.mc, fed'.mc), micRt.nChannels))
          /\ (fed'.loop # fed.loop \/ fed'.mic # fed.mic) =>
                /\ started /\ wavWriter.st = "open" /\ Len(wlog') = 1
                /\ Appended(wavWriter, wavWriter', wlog'[1])]_vars

\* C22 witness: the first frame of a loopback-only session was lost to a
\* failed write, the second was written
C22_Witness ==
    /\ lbStarted /\ lbRt.st = "running" /\ lbWriter.st = "open"
    /\ lbWriter.lost = 1
    /\ Len(fed.lb) = 8
    /\ lbWriter.data = SubSeq(fed.lb, 5, 8)


\* C23: no exception raised while a delivered frame is handled leaves the
\* source callback: every callback returns normally to the audio subsystem.
C23_CallbackNeverThrows ==
    \A i \in DOMAIN rets : rets[i].op \in CallbackOps => rets[i].ok


\* C25: of the stop calls that overlap on one active session, at most one
\* requests the writer's end (at most one call is parked on the end callback)
\* and at most one returns {ok: true}.
C25_OneStopPerSession ==
    /\ \A m \in {"mixed", "loopback", "mic"} : Len(stopWait[m]) <= 1
    /\ Cardinality({i \in DOMAIN rets : rets[i].op \in StopOps /\ rets[i].ok}) <= 1


\* C26: a session lives from its successful start until a stop requested
\* after that start.  No stop call is parked on the mode when a start of it
\* succeeds; while the flag is set and no stop is parked the streams run and
\* the writer is open; and the flag falls only in the continuation of stop
\* calls that were parked, hence issued, during that session.
SessionStarts(op, m) == Answered(op) /\ rets'[1].ok => stopWait[m] = <<>>
SessionEnds(flag, m) ==
    (flag /\ ~flag') => (stopWait[m] # <<>> /\ stopWait'[m] = <<>>)
Live(rt, writer) == rt.st = "running" /\ writer.st = "open"
C26_SessionOutlivesEarlierStops ==
    [][/\ SessionStarts("start", "mixed")
       /\ SessionStarts("startLoopback", "loopback")
       /\ SessionStarts("startMic", "mic")
       /\ SessionEnds(started, "mixed")
       /\ SessionEnds(lbStarted, "loopback")
       /\ SessionEnds(micStarted, "mic")
       /\ (started' /\ stopWait'.mixed = <<>>) =>
              (Live(rtLoopback', wavWriter') /\ Live(rtMic', wavWriter'))
       /\ (lbStarted' /\ stopWait'.loopback = <<>>) => Live(lbRt', lbWriter')
       /\ (micStarted' /\ stopWait'.mic = <<>>) => Live(micRt', micWriter')]_vars

\* C26 witness: a second mixed session, started after the first one took a
\* frame and was stopped
C26_Witness ==
    /\ started /\ stopWait.mixed = <<>>
    /\ rets # <<>> /\ rets[1].op = "start" /\ rets[1].ok
    /\ nFrames = 1 /\ fed = NoFed
    /\ Live(rtLoopback, wavWriter) /\ Live(rtMic, wavWriter)


\* C27: a start issued while a stop is parked on the writer's end is rejected
\* with 'already in progress' and changes nothing; the step that completes the
\* stop leaves the mixed state as it was initially (handles null, flag false,
\* queues empty); and a start issued in that state on Windows with devices
\* listed and no stream operation failing succeeds.
IdleMixed(S) ==
    /\ S.rtLoopback = NullRt /\ S.rtMic = NullRt /\ S.wavWriter = NullWriter
    /\ ~S.started /\ S.qLoop = <<>> /\ S.qMic = <<>>
Resolved(id, list, defaultId, flag) ==
    IF id # 0 THEN id ELSE PickDevice(list, defaultId, flag).id
C29_EndpointsFromOptions ==
    [][\A out, in \in ListedIds \cup {0} :
          /\ (DevStartOn(out, in) /\ rets'[1].ok) =>
                /\ rtLoopback'.deviceId = Resolved(out, devices, defaultOut, "isDefaultOutput")
                /\ rtMic'.deviceId = Resolved(in, devices, defaultIn, "isDefaultInput")
          /\ (DevStartLoopbackOn(out) /\ rets'[1].ok) =>
                lbRt'.deviceId = Resolved(out, devices, defaultOut, "isDefaultOutput")
          /\ (DevStartMicOn(in) /\ rets'[1].ok) =>
                micRt'.deviceId = Resolved(in, devices, defaultIn, "isDefaultInput")]_vars

\* C30: in a mixed session both streams and the writer run at one sample
\* rate, the render endpoint's preferred rate if it has one, else the capture
\* endpoint's, else 48000, and the writer is 16-bit with 2 channels.
C30_OneCommonRate ==
    started =>
        LET outDev == PickDevice(devices, defaultOut, "isDefaultOutput")
            inDev == PickDevice(devices, defaultIn, "isDefaultInput")
            rate == IF outDev.preferredSampleRate # 0 THEN outDev.preferredSampleRate
                    ELSE IF inDev.preferredSampleRate # 0 THEN inDev.preferredSampleRate
                    ELSE 48000
        IN  /\ rtLoopback.sampleRate = rate /\ rtMic.sampleRate = rate
            /\ wavWriter.sampleRate = rate /\ sampleRateInUse = rate
            /\ wavWriter.bitDepth = 16 /\ wavWriter.channels = 2

\* C30 witness: the render endpoint states no rate and the capture endpoint
\* prefers 96000: the session runs at 96000
C30_Witness ==
    /\ started /\ rtLoopback.st = "running" /\ rtMic.st = "running"
    /\ PickDevice(devices, defaultOut, "isDefaultOutput").preferredSampleRate = 0
    /\ wavWriter.sampleRate = 96000 /\ rtLoopback.sampleRate = 96000
    /\ rtMic.sampleRate = 96000


\* C24: of two 'recording:start' requests that overlap, at most one creates an
\* encoder process: a handler spawns a process only when no recorder is
\* current, so no spawn replaces the process an overlapping request created.
C24_OneStartCreates ==
    [][Len(encoder'.procs) > Len(encoder.procs) => currentRecorder = "null"]_vars

\* C28: every 'recording:stop' request parked on the encoder process's
\* 'close' eventually resolves.
C28_StopResolves == (encoder.stops # <<>>) ~> (encoder.stops = <<>>)


\* C31: a stream whose endpoint reports zero (or no) capture channels is opened
\* with a request for 2 channels, in every mode, for the loopback and for the
\* microphone source.
ZeroChannels(defaultId, flag) == PickDevice(devices, defaultId, flag).inputChannels = 0
Opened(rt) == rt.st \in {"open", "running"}
C31_ZeroChannelsRequestTwo ==
    /\ (Opened(rtLoopback) /\ ZeroChannels(defaultOut, "isDefaultOutput")) =>
           rtLoopback.nChannels = 2
    /\ (Opened(rtMic) /\ ZeroChannels(defaultIn, "isDefaultInput")) => rtMic.nChannels = 2
    /\ (Opened(lbRt) /\ ZeroChannels(defaultOut, "isDefaultOutput")) => lbRt.nChannels = 2
    /\ (Opened(micRt) /\ ZeroChannels(defaultIn, "isDefaultInput")) => micRt.nChannels = 2


\* C32: a frame with samples s_0..s_(n-1) delivered by a microphone stream
\* opened with 1 channel is queued or written as s_0,s_0,s_1,s_1,..,
\* s_(n-1),s_(n-1); delivered by a stream opened with 2 or more channels it is
\* queued or written unchanged.  (In mixed mode the lone microphone frame is
\* written mixed with silence of its length.)
Doubled(samples) == [k \in 1..(2 * Len(samples)) |-> samples[(k + 1) \div 2]]
AsStereo(pcm, nChannels) == IF nChannels = 1 THEN Pcm(Doubled(Samples(pcm))) ELSE pcm
C32_MonoSamplesDoubled ==
    [][(FrameStep /\ ~WriteThrew) =>
          /\ fed'.mc # fed.mc =>
                NewBytes(micWriter.data, micWriter'.data)
                    = AsStereo(NewBytes(fed.mc, fed'.mc), micRt.nChannels)
          /\ fed'.mic # fed.mic =>
                \E pcm \in PcmFrames :
                    LET buf == AsStereo(pcm, rtMic.nChannels)
                    IN  /\ Len(pcm) = fed'.mic - fed.mic
                        /\ Len(buf) = (IF rtMic.nChannels = 1 THEN 2 ELSE 1) * Len(pcm)
                        /\ wlog' = <<MixInt16Stereo(Silence(Len(buf)), buf)>>]_vars

\* C32 witness: a mono mic-only session was delivered the samples 1, -1 and
\* wrote 1, 1, -1, -1
C32_Witness ==
    /\ micStarted /\ micRt.nChannels = 1
    /\ fed.mc = Pcm(<<1, -1>>)
    /\ micWriter.data = Pcm(<<1, 1, -1, -1>>)


\* C33: for signed 16-bit a and b the shifted sum (a + b) >> 1 is itself a
\* signed 16-bit value, so the mixer's clamp changes nothing: every sample the
\* mixer writes for two frames of equal length is the shifted sum of the two
\* input samples.
EdgeSamples == {-32768, -32767, -1, 0, 1, 32766, 32767}
C33_ClampNeverActs ==
    /\ \A a, b \in EdgeSamples :
           /\ (a + b) \div 2 \in -32768..32767
           /\ MixSample(a, b) = (a + b) \div 2
    /\ (mixIn.ran /\ Len(mixIn.loop) = 1 /\ Len(mixIn.mic) = 1
           /\ Len(mixIn.loop[1]) = Len(mixIn.mic[1]))
       => LET A == Samples(mixIn.loop[1])
              B == Samples(mixIn.mic[1])
          IN  /\ Len(wlog) = 1
              /\ Samples(wlog[1]) = [i \in 1..Len(A) |-> (A[i] + B[i]) \div 2]
              /\ wlog[1] = Pcm(Samples(wlog[1]))

\* C33 witness: the two extreme sums, 32767 + 32767 and -32768 + -32768, were
\* mixed to 32767 and -32768
C33_Witness ==
    /\ mixIn.ran
    /\ mixIn.loop = <<Pcm(<<32767, -32768>>)>>
    /\ mixIn.mic = <<Pcm(<<32767, -32768>>)>>
    /\ wlog = <<Pcm(<<32767, -32768>>)>>
    /\ wavWriter.data = Pcm(<<32767, -32768>>)

====
